---------------------------- MODULE Spec2Model ----------------------------
(***************************************************************************)
(* Model of the adaptive signal and decision engine of the Deriv bot       *)
(* (src/candles.js, src/decisions.js, src/main.js).                        *)
(*                                                                         *)
(* Numbers.  JavaScript numbers are modelled by exact rationals            *)
(* [n |-> numerator, d |-> denominator] in lowest terms (d = 0 stands for  *)
(* NaN when n = 0 and for +Infinity when n > 0).  A value a + k*sqrt(v)    *)
(* (standard deviations, Bollinger bands) is kept as the record            *)
(* [mean |-> a, k |-> k, var |-> v] and compared by squaring, so every     *)
(* threshold comparison of the code is decided exactly.  The recursively  *)
(* smoothed series (EMA, the Wilder averages of RSI and ATR), whose exact  *)
(* denominators grow without bound, are kept in fixed point with FScale    *)
(* fractional units.  Prices are integers counting 1/PriceScale.           *)
(* JavaScript arrays are 0-based: At(a, i) reads index i.                  *)
(***************************************************************************)
EXTENDS Integers, Sequences, FiniteSets, TLC

VARIABLES
    candleData,        \* main.js:26   candle sequence
    tickBuffer,        \* main.js:27   recent ticks
    marketRegime,      \* main.js:38   process-wide regime
    indicatorWeights,  \* main.js:39   process-wide indicator weights
    tradeHistory,      \* localStorage 'tradeHistory', newest first
    granularity,       \* granEl.value, seconds
    liveMode,          \* liveModeCheckbox.checked
    sent,              \* the trade requests (proposal, buy) that went out on
                       \* the socket, in order
    tradesMade,        \* main.js:33
    cycles,            \* number of completed decision cycles
    arg,               \* argument of the function under evaluation
    ret,               \* its result
    ws,                \* main.js:25   the socket: "none", or its readyState
    authorized,        \* main.js:29
    autoTrading,       \* main.js:30
    autoTimer,         \* main.js:31   the id setInterval returned, 0 for null
    timers,            \* the intervals made by setInterval(autoCheck, ..):
                       \* timers[id] is TRUE until clearInterval(id)
    disabled,          \* the buttons whose disabled attribute is set
    lastProposalReceived,  \* main.js:34
    pc,                \* the statement a running autoCheck is at, or "idle"
    clock,             \* number of ticks the server has sent
    symbol,            \* symbolEl.value
    subscriptions,     \* the symbols whose ticks the server streams on the
                       \* connection of the current socket
    pingTimer,         \* main.js:32   "null", or the state of the interval
                       \* it refers to: "live" or "cleared"
    pingTimers,        \* number of live keep-alive intervals
    stale              \* readyStates of the sockets that ws no longer refers
                       \* to and that have not closed yet

\* what the session handlers own
feed == <<symbol, subscriptions>>
keepAlive == <<pingTimer, pingTimers, stale>>
page == <<ws, authorized, autoTrading, autoTimer, timers, disabled, lastProposalReceived,
          pc, clock, feed, keepAlive>>
vars == <<candleData, tickBuffer, marketRegime, indicatorWeights, tradeHistory,
          granularity, liveMode, sent, tradesMade, cycles, arg, ret, page>>

(* ------------------------------ bounds -------------------------------- *)
PriceScale == 1000
FScale == 10000
MaxLen == 4
MaxPeriod == 3
MaxPx == 3
MaxBase == 5
PatMaxPx == 4

(* ------------------------- JavaScript values -------------------------- *)
Null == [null |-> TRUE]
Undefined == [undefined |-> TRUE]
\* a candle sequence that is missing (null or undefined)
NoCandles == <<Null>>

Abs(x) == IF x < 0 THEN -x ELSE x
Max2(a, b) == IF a >= b THEN a ELSE b
Min2(a, b) == IF a <= b THEN a ELSE b

RECURSIVE GCD(_, _)
GCD(a, b) == IF b = 0 THEN a ELSE GCD(b, a % b)

\* the rational n/d in lowest terms with a positive denominator
Rat(n, d) ==
    IF d = 0 THEN [n |-> IF n > 0 THEN 1 ELSE IF n < 0 THEN -1 ELSE 0, d |-> 0]
    ELSE LET g == GCD(Abs(n), Abs(d))
             s == IF d < 0 THEN -1 ELSE 1
         IN [n |-> s * (n \div g), d |-> s * (d \div g)]

IsNum(x) == DOMAIN x = {"n", "d"}
IsNaN(x) == IsNum(x) /\ x.d = 0 /\ x.n = 0
RatInt(i) == [n |-> i, d |-> 1]

\* a/b < c/d for naturals a, c and positive b, d, by continued fractions:
\* no product is formed, so no intermediate value overflows
RECURSIVE FracLess(_, _, _, _)
FracLess(a, b, c, d) ==
    LET q1 == a \div b
        q2 == c \div d
        r1 == a % b
        r2 == c % d
    IN IF q1 # q2 THEN q1 < q2
       ELSE IF r2 = 0 THEN FALSE
       ELSE IF r1 = 0 THEN TRUE
       ELSE FracLess(d, r2, b, r1)

\* x < y on numbers; false as soon as one side is NaN, as in JavaScript
RatLess(x, y) ==
    IF IsNaN(x) \/ IsNaN(y) THEN FALSE
    ELSE IF x.d = 0 /\ y.d = 0 THEN x.n < y.n
    ELSE IF x.d = 0 THEN x.n < 0
    ELSE IF y.d = 0 THEN y.n > 0
    ELSE IF x.n < 0 /\ y.n >= 0 THEN TRUE
    ELSE IF x.n >= 0 /\ y.n < 0 THEN FALSE
    ELSE IF x.n >= 0 THEN FracLess(x.n, x.d, y.n, y.d)
    ELSE FracLess(-y.n, y.d, -x.n, x.d)

RatGreater(x, y) == RatLess(y, x)
RatLeq(x, y) == ~IsNaN(x) /\ ~IsNaN(y) /\ ~RatLess(y, x)
RatGeq(x, y) == RatLeq(y, x)

RatNeg(x) == [n |-> -x.n, d |-> x.d]
RatAbs(x) == [n |-> Abs(x.n), d |-> x.d]
RatAdd(x, y) ==
    IF x.d = 0 \/ y.d = 0
    THEN (IF IsNaN(x) \/ IsNaN(y) \/ (x.d = 0 /\ y.d = 0 /\ x.n # y.n)
          THEN Rat(0, 0) ELSE IF x.d = 0 THEN x ELSE y)
    ELSE LET g == GCD(x.d, y.d)
         IN Rat(x.n * (y.d \div g) + y.n * (x.d \div g), x.d * (y.d \div g))
RatSub(x, y) == RatAdd(x, RatNeg(y))
RatMul(x, y) ==
    IF x.d = 0 \/ y.d = 0
    THEN (IF IsNaN(x) \/ IsNaN(y) \/ x.n = 0 \/ y.n = 0 THEN Rat(0, 0)
          ELSE Rat((IF x.n > 0 THEN 1 ELSE -1) * (IF y.n > 0 THEN 1 ELSE -1), 0))
    ELSE LET g1 == GCD(Abs(x.n), y.d)
             g2 == GCD(Abs(y.n), x.d)
         IN Rat((x.n \div g1) * (y.n \div g2), (x.d \div g2) * (y.d \div g1))
RatDiv(x, y) ==
    IF y.d = 0 THEN (IF IsNaN(y) \/ x.d = 0 THEN Rat(0, 0) ELSE Rat(0, 1))
    ELSE IF y.n = 0 THEN Rat(x.n, 0)
    ELSE RatMul(x, Rat(y.d, y.n))
RatMin(x, y) == IF IsNaN(x) \/ IsNaN(y) THEN Rat(0, 0) ELSE IF RatLess(y, x) THEN y ELSE x

\* JavaScript truthiness of a number, null or undefined
Truthy(x) == IsNum(x) /\ ~IsNaN(x) /\ x.n # 0

\* a + k*sqrt(v): mean a, coefficient k and radicand v are rationals
Surd(a, k, v) == [mean |-> a, k |-> k, var |-> v]
IsSurd(x) == DOMAIN x = {"mean", "k", "var"}
SurdIsNaN(s) == IsNaN(s.mean) \/ IsNaN(s.k) \/ IsNaN(s.var) \/ (s.k.d = 0 /\ s.var.n = 0)
\* k*sqrt(v) < t for k >= 0 and a rational t
RootLess(s, t) ==
    IF SurdIsNaN(s) \/ IsNaN(t) THEN FALSE
    ELSE IF s.k.d = 0 THEN FALSE
    ELSE IF t.n <= 0 THEN FALSE
    ELSE IF s.k.n = 0 THEN TRUE
    ELSE LET q == RatDiv(t, s.k) IN RatLess(s.var, Rat(q.n * q.n, q.d * q.d))
RootGreater(s, t) ==
    IF SurdIsNaN(s) \/ IsNaN(t) THEN FALSE
    ELSE IF s.k.d = 0 THEN TRUE
    ELSE IF t.n < 0 THEN TRUE
    ELSE IF s.k.n = 0 THEN FALSE
    ELSE LET q == RatDiv(t, s.k) IN RatLess(Rat(q.n * q.n, q.d * q.d), s.var)
\* p <= a + k*sqrt(v) and p >= a + k*sqrt(v) for an integer p, k = +2 or -2
IntLeqSurd(p, s) ==
    LET diff == RatSub(RatInt(p), s.mean)
        sq == RatMul(diff, diff)
        kv == RatMul(RatMul(s.k, s.k), s.var)
    IN IF s.k.n >= 0 THEN (diff.n <= 0 \/ RatLeq(sq, kv))
       ELSE (diff.n <= 0 /\ RatGeq(sq, kv))
IntGeqSurd(p, s) ==
    LET diff == RatSub(RatInt(p), s.mean)
        sq == RatMul(diff, diff)
        kv == RatMul(RatMul(s.k, s.k), s.var)
    IN IF s.k.n >= 0 THEN (diff.n >= 0 /\ RatGeq(sq, kv))
       ELSE (diff.n >= 0 \/ RatLeq(sq, kv))
\* the value is 0 (prices are never negative, so a >= 0 and k*sqrt(v) >= 0)
SurdIsZero(s) == s.mean.n = 0 /\ (s.var.n = 0 \/ s.k.n = 0)
SurdTruthy(s) == IsSurd(s) /\ ~SurdIsNaN(s) /\ ~SurdIsZero(s)

\* the product b * f of two rationals, kept unevaluated: the confidence is a
\* ratio over the previous close times a chain of small factors
Prod(b, f) == [base |-> b, factor |-> f]
IsProd(x) == DOMAIN x = {"base", "factor"}
ProdLess(x, t) ==
    IF x.factor.n = 0 THEN ~IsNaN(x.base) /\ RatLess(RatInt(0), t)
    ELSE RatLess(x.base, RatDiv(t, x.factor))
ProdGreater(x, t) ==
    IF x.factor.n = 0 THEN ~IsNaN(x.base) /\ RatLess(t, RatInt(0))
    ELSE RatGreater(x.base, RatDiv(t, x.factor))

\* array access by 0-based index; out of range reads undefined
At(a, i) == IF i >= 0 /\ i < Len(a) THEN a[i + 1] ELSE Undefined
Last(a) == At(a, Len(a) - 1)
\* Array.prototype.slice(from, to) with non-negative indices
Slice(a, from, to) == SubSeq(a, from + 1, Min2(to, Len(a)))
\* Array.prototype.slice(-k)
SliceLast(a, k) == SubSeq(a, Max2(1, Len(a) - k + 1), Len(a))
Fill(n, v) == [i \in 1..n |-> v]

\* reduce((a, b) => a + b, 0); sums are split in halves, which keeps the
\* depth of evaluation logarithmic in the length
RECURSIVE SumRange(_, _, _)
SumRange(s, from, to) ==
    IF from > to THEN 0
    ELSE IF from = to THEN s[from]
    ELSE SumRange(s, from, (from + to) \div 2) + SumRange(s, (from + to) \div 2 + 1, to)
SumSeq(s) == SumRange(s, 1, Len(s))

\* sum of (period*b - S)^2 over the slice: period^3 times the variance
SumSqDev(s, period, S) ==
    SumSeq([i \in 1..Len(s) |-> (period * s[i] - S) * (period * s[i] - S)])

Variance(slice, period) ==
    Rat(SumSqDev(slice, period, SumSeq(slice)), period * period * period)

CeilDiv(a, b) == (a + b - 1) \div b

(* ---------------------------- candles.js ------------------------------ *)
calcMA(values, period) ==
    [i \in 1..Len(values) |->
        IF i - 1 < period - 1 THEN Null
        ELSE Rat(SumSeq(Slice(values, i - period, i)), period)]

\* values and result in fixed point (FScale units); k = 2 / (period + 1).
\* EMAFrom runs the loop from res, which holds ema[0..Len(res)-1], until n
\* values are there; a run of several iterations is split in halves, which
\* keeps the depth of evaluation logarithmic in the length
RECURSIVE EMAFrom(_, _, _, _)
EMAFrom(values, period, res, n) ==
    IF Len(res) >= n THEN res
    ELSE IF Len(res) + 1 = n
    THEN Append(res, IF n = 1 THEN values[1]
                     ELSE (2 * values[n] + (period - 1) * res[n - 1]) \div (period + 1))
    ELSE EMAFrom(values, period, EMAFrom(values, period, res, (Len(res) + n) \div 2), n)
calcEMA(values, period) == EMAFrom(values, period, <<>>, Len(values))

ToFixed(values) == [i \in 1..Len(values) |-> values[i] * FScale]

Gains(values) == [i \in 1..(Len(values) - 1) |-> Max2(0, values[i + 1] - values[i])]
Losses(values) == [i \in 1..(Len(values) - 1) |-> Max2(0, values[i] - values[i + 1])]
RsiValue(avgGain, avgLoss) ==
    IF avgLoss = 0 THEN RatInt(100) ELSE Rat(100 * avgGain, avgGain + avgLoss)
\* the Wilder averages are kept in fixed point, rounded up: like the
\* floating-point averages they are 0 only when they are exactly 0.
\* RSIFrom runs the loop from the state st = [avgGain, avgLoss, rsi], where
\* rsi holds rsi[0..i], until rsi has n values (split in halves as above)
RECURSIVE RSIFrom(_, _, _, _, _)
RSIFrom(gains, losses, period, st, n) ==
    IF Len(st.rsi) >= n THEN st
    ELSE IF Len(st.rsi) + 1 = n
    THEN LET i == Len(st.rsi)
             g == gains[i]      \* gains[i - 1] of the code: sequences start at 1
             l == losses[i]
             ag == CeilDiv(st.avgGain * (period - 1) + g * FScale, period)
             al == CeilDiv(st.avgLoss * (period - 1) + l * FScale, period)
         IN [avgGain |-> ag, avgLoss |-> al, rsi |-> Append(st.rsi, RsiValue(ag, al))]
    ELSE RSIFrom(gains, losses, period,
                 RSIFrom(gains, losses, period, st, (Len(st.rsi) + n) \div 2), n)
calcRSI(values, period) ==
    IF Len(values) <= period THEN Fill(Len(values), Null)
    ELSE LET gains == Gains(values)
             losses == Losses(values)
             avgGain == CeilDiv(SumSeq(Slice(gains, 0, period)) * FScale, period)
             avgLoss == CeilDiv(SumSeq(Slice(losses, 0, period)) * FScale, period)
             rsi0 == Append(Fill(period, Null), RsiValue(avgGain, avgLoss))
         IN RSIFrom(gains, losses, period,
                    [avgGain |-> avgGain, avgLoss |-> avgLoss, rsi |-> rsi0],
                    Len(values)).rsi

calcBollinger(values, period, mult) ==
    [i \in 1..Len(values) |->
        IF i - 1 < period - 1 THEN [upper |-> Null, middle |-> Null, lower |-> Null]
        ELSE LET slice == Slice(values, i - period, i)
                 mean == Rat(SumSeq(slice), period)
                 variance == Variance(slice, period)
             IN [upper |-> Surd(mean, RatInt(mult), variance),
                 middle |-> mean,
                 lower |-> Surd(mean, RatInt(-mult), variance)]]

calcVolatility(closes, period) ==
    IF Len(closes) < period THEN Surd(RatInt(0), RatInt(1), RatInt(0))
    ELSE Surd(RatInt(0), RatInt(1), Variance(SliceLast(closes, period), period))

calcMACD(values, fastPeriod, slowPeriod, signalPeriod) ==
    LET emaFast == calcEMA(ToFixed(values), fastPeriod)
        emaSlow == calcEMA(ToFixed(values), slowPeriod)
        macdLine == [i \in 1..Len(emaFast) |-> emaFast[i] - emaSlow[i]]
        signalLine == calcEMA(macdLine, signalPeriod)
        histogram == [i \in 1..Len(macdLine) |-> macdLine[i] - signalLine[i]]
    IN [macdLine |-> macdLine, signalLine |-> signalLine, histogram |-> histogram]

TrueRanges(candles) ==
    [i \in 1..(Len(candles) - 1) |->
        LET high == candles[i + 1].high
            low == candles[i + 1].low
            prevClose == candles[i].close
        IN Max2(high - low, Max2(Abs(high - prevClose), Abs(low - prevClose)))]
\* atr holds fixed-point values behind the leading null; the loop index i
\* (0-based, into tr) is period - 2 more than its length.  ATRFrom runs the
\* loop until atr has n values (split in halves as above)
RECURSIVE ATRFrom(_, _, _, _)
ATRFrom(tr, period, atr, n) ==
    IF Len(atr) >= n THEN atr
    ELSE IF Len(atr) + 1 = n
    THEN LET i == Len(atr) + period - 2
         IN Append(atr, (atr[Len(atr)] * (period - 1) + tr[i + 1] * FScale) \div period)
    ELSE ATRFrom(tr, period, ATRFrom(tr, period, atr, (Len(atr) + n) \div 2), n)
calcATR(candles, period) ==
    IF Len(candles) < period + 1 THEN Fill(Len(candles), Null)
    ELSE LET tr == TrueRanges(candles)
             sum == SumSeq(Slice(tr, 0, period))
             fx == ATRFrom(tr, period, <<0, (sum * FScale) \div period>>, Len(tr) - period + 2)
         IN [i \in 1..Len(fx) |-> IF i = 1 THEN Null ELSE Rat(fx[i], FScale)]


(* prices are integers counting 1/PriceScale; Real(p) is the price itself *)
Real(p) == Rat(p, PriceScale)
SurdScale(s, r) == Surd(RatMul(s.mean, r), RatMul(s.k, r), s.var)
\* comparisons of a number that is a rational or a bare root k*sqrt(v)
\* or an unevaluated product, with a rational t
NumLess(x, t) ==
    IF IsSurd(x) THEN RootLess(x, t) ELSE IF IsProd(x) THEN ProdLess(x, t) ELSE RatLess(x, t)
NumGreater(x, t) ==
    IF IsSurd(x) THEN RootGreater(x, t) ELSE IF IsProd(x) THEN ProdGreater(x, t)
    ELSE RatGreater(x, t)
NumIsNaN(x) ==
    IF IsSurd(x) THEN SurdIsNaN(x) ELSE IF IsProd(x) THEN IsNaN(x.base) ELSE IsNaN(x)
Closes(candles) == [i \in 1..Len(candles) |-> candles[i].close]
\* the standard deviation of the code, in price units
Volatility(closes, period) == SurdScale(calcVolatility(closes, period), Rat(1, PriceScale))

(* ---------- Market Regime Detection ---------- *)
\* variant: a strong trend is accepted without looking at the volatility
ClassifyRegimeAnyVol(trendStrength, volPercentage) ==
    LET isHighVol == RootGreater(volPercentage, Rat(1, 100))
        isLowVol == RootLess(volPercentage, Rat(3, 1000))
    IN IF RatGreater(RatAbs(trendStrength), Rat(2, 100))
       THEN [type |-> IF trendStrength.n > 0 THEN "STRONG_UPTREND" ELSE "STRONG_DOWNTREND",
             confidence |-> Rat(85, 100)]
       ELSE IF RatGreater(RatAbs(trendStrength), Rat(1, 100))
       THEN [type |-> IF trendStrength.n > 0 THEN "UPTREND" ELSE "DOWNTREND",
             confidence |-> Rat(7, 10)]
       ELSE IF isHighVol THEN [type |-> "HIGH_VOLATILITY", confidence |-> Rat(6, 10)]
       ELSE IF isLowVol THEN [type |-> "CONSOLIDATION", confidence |-> Rat(65, 100)]
       ELSE [type |-> "NEUTRAL", confidence |-> Rat(5, 10)]
\* variant: the confidences are percentages
ClassifyRegimePercent(trendStrength, volPercentage) ==
    LET isHighVol == RootGreater(volPercentage, Rat(1, 100))
        isLowVol == RootLess(volPercentage, Rat(3, 1000))
    IN IF RatGreater(RatAbs(trendStrength), Rat(2, 100)) /\ ~isLowVol
       THEN [type |-> IF trendStrength.n > 0 THEN "STRONG_UPTREND" ELSE "STRONG_DOWNTREND",
             confidence |-> RatInt(85)]
       ELSE IF RatGreater(RatAbs(trendStrength), Rat(1, 100))
       THEN [type |-> IF trendStrength.n > 0 THEN "UPTREND" ELSE "DOWNTREND",
             confidence |-> RatInt(70)]
       ELSE IF isHighVol THEN [type |-> "HIGH_VOLATILITY", confidence |-> RatInt(60)]
       ELSE IF isLowVol THEN [type |-> "CONSOLIDATION", confidence |-> RatInt(65)]
       ELSE [type |-> "NEUTRAL", confidence |-> RatInt(50)]
\* the regime determination from the trend strength and the volatility ratio
ClassifyRegime(trendStrength, volPercentage) ==
    LET isHighVol == RootGreater(volPercentage, Rat(1, 100))
        isLowVol == RootLess(volPercentage, Rat(3, 1000))
    IN IF RatGreater(RatAbs(trendStrength), Rat(2, 100)) /\ ~isLowVol
       THEN [type |-> IF trendStrength.n > 0 THEN "STRONG_UPTREND" ELSE "STRONG_DOWNTREND",
             confidence |-> Rat(85, 100)]
       ELSE IF RatGreater(RatAbs(trendStrength), Rat(1, 100))
       THEN [type |-> IF trendStrength.n > 0 THEN "UPTREND" ELSE "DOWNTREND",
             confidence |-> Rat(7, 10)]
       ELSE IF isHighVol THEN [type |-> "HIGH_VOLATILITY", confidence |-> Rat(6, 10)]
       ELSE IF isLowVol THEN [type |-> "CONSOLIDATION", confidence |-> Rat(65, 100)]
       ELSE [type |-> "NEUTRAL", confidence |-> Rat(5, 10)]
detectMarketRegime(candles) ==
    IF Len(candles) < 50
    THEN [type |-> "INSUFFICIENT_DATA", volatility |-> RatInt(0), trend |-> RatInt(0),
          confidence |-> RatInt(0)]
    ELSE LET closes == Closes(candles)
             volatility == Volatility(closes, 20)
             ma20 == calcMA(closes, 20)
             ma50 == calcMA(closes, 50)
             atr == calcATR(candles, 14)
             currentPrice == Last(closes)
             ma20Current == Last(ma20)
             ma50Current == Last(ma50)
             atrCurrent == Last(atr)
             trendStrength == IF Truthy(ma20Current) /\ Truthy(ma50Current)
                              THEN RatDiv(RatSub(ma20Current, ma50Current), ma50Current)
                              ELSE RatInt(0)
             volPercentage == IF currentPrice = 0
                              THEN Surd(RatInt(0), Rat(1, 0), volatility.var)
                              ELSE SurdScale(volatility, RatDiv(RatInt(1), Real(currentPrice)))
             class == ClassifyRegime(trendStrength, volPercentage)
         IN [type |-> class.type, volatility |-> volPercentage, trend |-> trendStrength,
             confidence |-> class.confidence, atr |-> atrCurrent]

(* ---------- Adaptive Indicator Weighting ---------- *)
DefaultWeights ==
    [ma |-> RatInt(1), rsi |-> RatInt(1), bb |-> RatInt(1), momentum |-> RatInt(1),
     volume |-> RatInt(1)]
ScaleWeights(w, f) == [k \in DOMAIN w |-> RatMul(w[k], f)]
RegimeWeights(w, regimeType) ==
    IF regimeType \in {"STRONG_UPTREND", "STRONG_DOWNTREND"}
    THEN [w EXCEPT !.ma = Rat(13, 10), !.momentum = Rat(14, 10), !.rsi = Rat(8, 10),
                   !.bb = Rat(9, 10)]
    ELSE IF regimeType = "HIGH_VOLATILITY"
    THEN [w EXCEPT !.bb = Rat(15, 10), !.rsi = Rat(12, 10), !.ma = Rat(7, 10),
                   !.momentum = Rat(11, 10)]
    ELSE IF regimeType = "CONSOLIDATION"
    THEN [w EXCEPT !.bb = Rat(13, 10), !.rsi = Rat(14, 10), !.ma = Rat(6, 10),
                   !.momentum = Rat(5, 10)]
    ELSE DefaultWeights
\* variant: the win-rate scaling is applied before the table assignment
updateIndicatorWeightsScaleFirst(w, regime, winRate) ==
    RegimeWeights(IF RatGreater(winRate, Rat(65, 100)) THEN ScaleWeights(w, Rat(11, 10))
                  ELSE IF RatLess(winRate, Rat(45, 100)) THEN ScaleWeights(w, Rat(85, 100))
                  ELSE w, regime.type)
updateIndicatorWeights(w, regime, winRate) ==
    LET byRegime == RegimeWeights(w, regime.type)
    IN IF RatGreater(winRate, Rat(65, 100)) THEN ScaleWeights(byRegime, Rat(11, 10))
       ELSE IF RatLess(winRate, Rat(45, 100)) THEN ScaleWeights(byRegime, Rat(85, 100))
       ELSE byRegime

(* ---------- Candlestick Pattern Recognition ---------- *)
\* variant: the body is compared with 1% of the range instead of 10%
IsDojiOnePercent(body3, bodyRange3) == 100 * body3 < bodyRange3 /\ bodyRange3 > 0
IsDoji(body3, bodyRange3) == 10 * body3 < bodyRange3 /\ bodyRange3 > 0
PatternResult(p, s, sig) == [pattern |-> p, strength |-> s, signal |-> sig]
identifyCandlestickPattern(candles) ==
    IF Len(candles) < 3 THEN PatternResult("NONE", RatInt(0), "NEUTRAL")
    ELSE LET c1 == candles[Len(candles) - 2]
             c2 == candles[Len(candles) - 1]
             c3 == candles[Len(candles)]
             body2 == Abs(c2.close - c2.open)
             body3 == Abs(c3.close - c3.open)
             upperWick3 == c3.high - Max2(c3.open, c3.close)
             lowerWick3 == Min2(c3.open, c3.close) - c3.low
             bodyRange3 == c3.high - c3.low
         IN IF IsDoji(body3, bodyRange3)
            THEN PatternResult("DOJI", Rat(7, 10), "REVERSAL_PENDING")
            ELSE IF lowerWick3 > body3 * 2 /\ 10 * upperWick3 < body3 * 3 /\ c3.close > c3.open
            THEN PatternResult("HAMMER", Rat(8, 10), "BULLISH")
            ELSE IF upperWick3 > body3 * 2 /\ 10 * lowerWick3 < body3 * 3 /\ c3.close < c3.open
            THEN PatternResult("SHOOTING_STAR", Rat(8, 10), "BEARISH")
            ELSE IF c2.close < c2.open /\ c3.close > c3.open /\ c3.open < c2.close
                    /\ c3.close > c2.open /\ 10 * body3 > body2 * 12
            THEN PatternResult("BULLISH_ENGULFING", Rat(85, 100), "BULLISH")
            ELSE IF c2.close > c2.open /\ c3.close < c3.open /\ c3.open > c2.close
                    /\ c3.close < c2.open /\ 10 * body3 > body2 * 12
            THEN PatternResult("BEARISH_ENGULFING", Rat(85, 100), "BEARISH")
            ELSE IF c1.close > c1.open /\ c2.close > c2.open /\ c3.close > c3.open
                    /\ c2.close > c1.close /\ c3.close > c2.close
            THEN PatternResult("THREE_WHITE_SOLDIERS", Rat(9, 10), "STRONG_BULLISH")
            ELSE IF c1.close < c1.open /\ c2.close < c2.open /\ c3.close < c3.open
                    /\ c2.close < c1.close /\ c3.close < c2.close
            THEN PatternResult("THREE_BLACK_CROWS", Rat(9, 10), "STRONG_BEARISH")
            ELSE PatternResult("NONE", RatInt(0), "NEUTRAL")

(* ---------- Predictive Micro-Structure Analysis ---------- *)
analyzeMicroStructure(ticks, currentCandle) ==
    IF Len(ticks) < 10
    THEN [momentum |-> RatInt(0), volatility |-> RatInt(0), prediction |-> "UNCERTAIN"]
    ELSE LET recentTicks == SliceLast(ticks, 20)
             prices == [i \in 1..Len(recentTicks) |-> recentTicks[i].quote]
             n == Len(prices)
             avgPrice == Rat(SumSeq(prices), n)
             momentum == Rat(prices[n] - prices[1], prices[1])
             ratio == Surd(RatInt(0), RatDiv(RatInt(1), avgPrice), Variance(prices, n))
             currentBody == Abs(currentCandle.close - currentCandle.open)
             currentRange == currentCandle.high - currentCandle.low
             prediction ==
                 IF RootGreater(ratio, Rat(1, 1000)) /\ RatGreater(momentum, Rat(5, 10000))
                 THEN "BULLISH_CONTINUATION"
                 ELSE IF RootGreater(ratio, Rat(1, 1000)) /\ RatLess(momentum, Rat(-5, 10000))
                 THEN "BEARISH_CONTINUATION"
                 ELSE IF RootLess(ratio, Rat(3, 10000)) THEN "CONSOLIDATION_LIKELY"
                 ELSE IF 10 * currentBody < currentRange * 2 THEN "DOJI_FORMING"
                 ELSE "UNCERTAIN"
         IN [momentum |-> momentum, volatility |-> ratio, prediction |-> prediction,
             confidence |-> RatMin(Rat(n, 20), RatInt(1))]

(* --------------------------- decisions.js ----------------------------- *)
\* Math.round of a rational: floor(x + 1/2)
Round(x) == (2 * x.n + x.d) \div (2 * x.d)
\* Number.prototype.toFixed: the value rounded to the given number of
\* decimals, as the integer count of 10^-digits ("NaN" for NaN)
Pow10(k) == IF k = 0 THEN 1 ELSE IF k = 1 THEN 10 ELSE IF k = 2 THEN 100 ELSE 1000
toFixed(x, digits) ==
    IF x.d = 0 THEN (IF x.n = 0 THEN "NaN" ELSE IF x.n > 0 THEN "Infinity" ELSE "-Infinity")
    ELSE LET m == RatMul(RatAbs(x), RatInt(Pow10(digits)))
             r == Round(m)
         IN IF x.n < 0 THEN -r ELSE r

\* (x * 100).toFixed(0) for a confidence x in [0, 0.95]
toPercent(x) ==
    IF NumIsNaN(x) THEN "NaN"
    ELSE CHOOSE r \in 0..95 : /\ ~NumLess(x, Rat(2 * r - 1, 200))
                              /\ NumLess(x, Rat(2 * r + 1, 200))

(* ---------- Adaptive Duration Optimization ---------- *)
\* variant: the lower clamp Math.max(baseGranularity, ...) is left out
ClampDurationUpperOnly(optimizedDuration, baseGranularity) ==
    Min2(optimizedDuration, baseGranularity * 3)
ClampDuration(optimizedDuration, baseGranularity) ==
    Max2(baseGranularity, Min2(optimizedDuration, baseGranularity * 3))

\* the factors the four adjustments multiply into durationMultiplier and
\* riskScore: the regime sets the start values, the others are *= factors
RegimeDuration(regimeType) ==
    IF regimeType \in {"STRONG_UPTREND", "STRONG_DOWNTREND"} THEN Rat(15, 10)
    ELSE IF regimeType = "HIGH_VOLATILITY" THEN Rat(7, 10)
    ELSE IF regimeType = "CONSOLIDATION" THEN Rat(8, 10)
    ELSE RatInt(1)
RegimeRisk(regimeType) ==
    IF regimeType \in {"STRONG_UPTREND", "STRONG_DOWNTREND"} THEN Rat(3, 10)
    ELSE IF regimeType = "HIGH_VOLATILITY" THEN Rat(7, 10)
    ELSE IF regimeType = "CONSOLIDATION" THEN Rat(6, 10)
    ELSE Rat(5, 10)
PatternDuration(pattern) ==
    IF RatGreater(pattern.strength, Rat(8, 10)) THEN Rat(12, 10) ELSE RatInt(1)
PatternRisk(pattern) ==
    IF RatGreater(pattern.strength, Rat(8, 10)) THEN Rat(85, 100) ELSE RatInt(1)
VolatilityDuration(volatility) ==
    IF NumGreater(volatility, Rat(15, 1000)) THEN Rat(8, 10)
    ELSE IF NumLess(volatility, Rat(5, 1000)) THEN Rat(11, 10) ELSE RatInt(1)
VolatilityRisk(volatility) ==
    IF NumGreater(volatility, Rat(15, 1000)) THEN Rat(12, 10)
    ELSE IF NumLess(volatility, Rat(5, 1000)) THEN Rat(9, 10) ELSE RatInt(1)
ConfidenceDuration(confidence) ==
    IF NumGreater(confidence, Rat(8, 10)) THEN Rat(115, 100)
    ELSE IF NumLess(confidence, Rat(6, 10)) THEN Rat(85, 100) ELSE RatInt(1)
ConfidenceRisk(confidence) ==
    IF NumGreater(confidence, Rat(8, 10)) THEN Rat(9, 10)
    ELSE IF NumLess(confidence, Rat(6, 10)) THEN Rat(11, 10) ELSE RatInt(1)
DurationMultiplier(decision, regime, volatility, pattern) ==
    RatMul(RatMul(RatMul(RegimeDuration(regime.type), PatternDuration(pattern)),
                  VolatilityDuration(volatility)), ConfidenceDuration(decision.confidence))
RiskScore(decision, regime, volatility, pattern) ==
    RatMul(RatMul(RatMul(RegimeRisk(regime.type), PatternRisk(pattern)),
                  VolatilityRisk(volatility)), ConfidenceRisk(decision.confidence))
FinalDuration(decision, regime, volatility, pattern, baseGranularity) ==
    ClampDuration(Round(RatMul(RatInt(baseGranularity),
                               DurationMultiplier(decision, regime, volatility, pattern))),
                  baseGranularity)

optimizeTradeDuration(decision, regime, volatility, pattern, baseGranularity) ==
    [duration |-> FinalDuration(decision, regime, volatility, pattern, baseGranularity),
     riskScore |-> RatMin(RiskScore(decision, regime, volatility, pattern), RatInt(1)),
     rationale |-> <<"Optimized from", baseGranularity, "to",
                     FinalDuration(decision, regime, volatility, pattern, baseGranularity),
                     regime.type>>]

(* ---------- Enhanced Decision Engine ---------- *)
\* win rate over the 20 most recent records of the stored history
WinRate(hist) ==
    LET recentTrades == Slice(hist, 0, 20)
        wins == Cardinality({i \in 1..Len(recentTrades) : recentTrades[i].result = "WIN"})
    IN IF Len(recentTrades) > 0 THEN Rat(wins, Len(recentTrades)) ELSE Rat(1, 2)

\* variant: the length check lets a sequence of 49 candles through
InsufficientDataBelow49(candles) == candles = NoCandles \/ Len(candles) < 49
\* !candles || candles.length < 50
InsufficientData(candles) == candles = NoCandles \/ Len(candles) < 50

\* variant: the confidence is capped at 1
CapConfidenceAtOne(baseConfidence) ==
    IF ProdGreater(baseConfidence, RatInt(1)) THEN RatInt(1) ELSE baseConfidence
\* Math.min(baseConfidence, 0.95)
CapConfidence(baseConfidence) ==
    IF ProdGreater(baseConfidence, Rat(95, 100)) THEN Rat(95, 100) ELSE baseConfidence

\* variant: the volatility filter passes everything above 0.0002
LowVolatilityTenth(volatility) == RootLess(volatility, Rat(2, 10000))
\* the volatility filter: volatility < 0.002
LowVolatility(volatility) == RootLess(volatility, Rat(2, 1000))

\* variant: the first two branches do not look at the confidence
SelectActionAnyConfidence(compositeSignal, confidence) ==
    IF RatGreater(compositeSignal, Rat(25, 10))
    THEN (IF RatGreater(compositeSignal, RatInt(4)) THEN "STRONG BUY" ELSE "BUY")
    ELSE IF RatLess(compositeSignal, Rat(-25, 10))
    THEN (IF RatLess(compositeSignal, RatInt(-4)) THEN "STRONG SELL" ELSE "SELL")
    ELSE IF RatGreater(RatAbs(compositeSignal), Rat(15, 10)) /\ NumGreater(confidence, Rat(7, 10))
    THEN (IF RatGreater(compositeSignal, RatInt(0)) THEN "BUY" ELSE "SELL")
    ELSE "HOLD"
\* the decision logic: the branch taken and the action it assigns
SelectBranch(compositeSignal, confidence) ==
    IF RatGreater(compositeSignal, Rat(25, 10)) /\ NumGreater(confidence, Rat(65, 100))
    THEN "bullish"
    ELSE IF RatLess(compositeSignal, Rat(-25, 10)) /\ NumGreater(confidence, Rat(65, 100))
    THEN "bearish"
    ELSE IF RatGreater(RatAbs(compositeSignal), Rat(15, 10)) /\ NumGreater(confidence, Rat(7, 10))
    THEN "moderate"
    ELSE "none"
SelectAction(compositeSignal, confidence) ==
    LET branch == SelectBranch(compositeSignal, confidence)
    IN IF branch = "bullish"
       THEN (IF RatGreater(compositeSignal, RatInt(4)) THEN "STRONG BUY" ELSE "BUY")
       ELSE IF branch = "bearish"
       THEN (IF RatLess(compositeSignal, RatInt(-4)) THEN "STRONG SELL" ELSE "SELL")
       ELSE IF branch = "moderate"
       THEN (IF RatGreater(compositeSignal, RatInt(0)) THEN "BUY" ELSE "SELL")
       ELSE "HOLD"

\* rsi[i] || 50
OrFifty(x) == IF Truthy(x) THEN x ELSE RatInt(50)
\* the indicator values at the latest index i; the price-valued ones (moving
\* averages, bands, MACD, ATR) count 1/PriceScale
LatestIndicators(candles, ticks) ==
    LET closes == Closes(candles)
        i == Len(closes) - 1
    IN [price |-> At(closes, i), prevPrice |-> At(closes, i - 1),
        ma14Now |-> At(calcMA(closes, 14), i),
        ma50Now |-> At(calcMA(closes, 50), i),
        rsiNow |-> OrFifty(At(calcRSI(closes, 14), i)),
        bbNow |-> At(calcBollinger(closes, 20, 2), i),
        macdNow |-> Rat(At(calcMACD(closes, 12, 26, 9).histogram, i), FScale),
        volatility |-> Volatility(closes, 20),
        atrNow |-> At(calcATR(candles, 14), i),
        pattern |-> identifyCandlestickPattern(candles),
        microAnalysis |-> analyzeMicroStructure(ticks, candles[Len(candles)])]

\* the weighted signals
TrendSignal(ind, weights) ==
    RatMul(IF RatGreater(RatInt(ind.price), ind.ma14Now) THEN RatInt(1) ELSE RatInt(-1),
           weights.ma)
MomentumSignal(ind, weights) ==
    RatMul(RatMul(RatDiv(RatInt(ind.price - ind.prevPrice), RatInt(ind.prevPrice)),
                  RatInt(1000)), weights.momentum)
RsiSignal(ind, weights) ==
    RatMul(IF RatLess(ind.rsiNow, RatInt(30)) THEN RatInt(1)
           ELSE IF RatGreater(ind.rsiNow, RatInt(70)) THEN RatInt(-1)
           ELSE RatInt(0), weights.rsi)
BbSignal(ind, weights) ==
    RatMul(IF IntLeqSurd(ind.price, ind.bbNow.lower) THEN RatInt(1)
           ELSE IF IntGeqSurd(ind.price, ind.bbNow.upper) THEN RatInt(-1)
           ELSE RatInt(0), weights.bb)
MacdSignal(ind) == RatMul(IF ind.macdNow.n > 0 THEN RatInt(1) ELSE RatInt(-1), Rat(8, 10))
PatternSignal(pattern) ==
    IF pattern.signal \in {"BEARISH", "STRONG_BEARISH"} THEN RatNeg(pattern.strength)
    ELSE IF pattern.signal \in {"BULLISH", "STRONG_BULLISH"} THEN pattern.strength
    ELSE RatInt(0)
MicroSignal(microAnalysis) ==
    IF microAnalysis.prediction = "BEARISH_CONTINUATION" THEN Rat(-6, 10)
    ELSE IF microAnalysis.prediction = "BULLISH_CONTINUATION" THEN Rat(6, 10)
    ELSE RatInt(0)
\* the seven local variables of the fusion
Signals(ind, weights) ==
    [trendSignal |-> TrendSignal(ind, weights), momentumSignal |-> MomentumSignal(ind, weights),
     rsiSignal |-> RsiSignal(ind, weights), bbSignal |-> BbSignal(ind, weights),
     macdSignal |-> MacdSignal(ind), patternSignal |-> PatternSignal(ind.pattern),
     microSignal |-> MicroSignal(ind.microAnalysis)]
\* their sum, in the order of the code
SumSignals(s) ==
    RatAdd(RatAdd(RatAdd(RatAdd(RatAdd(RatAdd(s.trendSignal, s.momentumSignal), s.rsiSignal),
                                s.bbSignal), s.macdSignal), s.patternSignal), s.microSignal)
CompositeSignal(ind, weights) == SumSignals(Signals(ind, weights))

\* variant: the confidence does not depend on the strength of the signal
BaseConfidenceAnyStrength(compositeSignal, regime, pattern, winRate) ==
    LET f1 == regime.confidence
        f2 == IF RatGreater(pattern.strength, Rat(7, 10)) THEN RatMul(f1, Rat(115, 100)) ELSE f1
        f3 == IF RatGreater(winRate, Rat(6, 10)) THEN RatMul(f2, Rat(11, 10))
              ELSE IF RatLess(winRate, Rat(4, 10)) THEN RatMul(f2, Rat(85, 100))
              ELSE f2
    IN Prod(RatInt(1), f3)
\* the confidence before the cap
BaseConfidence(compositeSignal, regime, pattern, winRate) ==
    LET signalStrength == RatAbs(compositeSignal)
        c0 == RatMin(RatDiv(signalStrength, RatInt(5)), RatInt(1))
        f1 == regime.confidence
        f2 == IF RatGreater(pattern.strength, Rat(7, 10)) THEN RatMul(f1, Rat(115, 100)) ELSE f1
        f3 == IF RatGreater(winRate, Rat(6, 10)) THEN RatMul(f2, Rat(11, 10))
              ELSE IF RatLess(winRate, Rat(4, 10)) THEN RatMul(f2, Rat(85, 100))
              ELSE f2
    IN Prod(c0, f3)

\* the reason string of the decision logic, as the tuple of its parts
Reason(branch, compositeSignal, confidence, regime, pattern) ==
    IF branch = "bullish"
    THEN <<"Bullish composite signal", toFixed(compositeSignal, 2), regime.type, pattern.pattern>>
    ELSE IF branch = "bearish"
    THEN <<"Bearish composite signal", toFixed(compositeSignal, 2), regime.type, pattern.pattern>>
    ELSE IF branch = "moderate"
    THEN <<"Moderate", IF RatGreater(compositeSignal, RatInt(0)) THEN "bullish" ELSE "bearish",
           "signal with high confidence">>
    ELSE <<"Insufficient signal strength", toFixed(compositeSignal, 2), "or confidence",
           toPercent(confidence)>>

\* the engine after the weight update, given the indicator values, the regime
\* just detected, the recent win rate and the updated weights
FuseAndDecide(ind, regime, winRate, weights) ==
    LET compositeSignal == CompositeSignal(ind, weights)
        confidence == CapConfidence(BaseConfidence(compositeSignal, regime, ind.pattern, winRate))
        snapshot == [ma14Now |-> ind.ma14Now, ma50Now |-> ind.ma50Now, rsiNow |-> ind.rsiNow,
                     bbNow |-> ind.bbNow, volatility |-> ind.volatility, atr |-> ind.atrNow,
                     pattern |-> ind.pattern, microAnalysis |-> ind.microAnalysis]
    IN IF ind.ma14Now = Null \/ ind.rsiNow = Null \/ ~SurdTruthy(ind.bbNow.upper)
       THEN [d |-> [action |-> "HOLD", reason |-> <<"Indicators not ready">>,
                    confidence |-> RatInt(0)],
             marketRegime |-> regime, indicatorWeights |-> weights, signals |-> Null]
       ELSE IF LowVolatility(ind.volatility)
       THEN [d |-> [action |-> "HOLD", reason |-> <<"Extremely low volatility - no edge">>,
                    confidence |-> RatInt(0), indicators |-> snapshot],
             marketRegime |-> regime, indicatorWeights |-> weights,
             signals |-> Signals(ind, weights)]
       ELSE [d |-> [action |-> SelectAction(compositeSignal, confidence),
                    reason |-> Reason(SelectBranch(compositeSignal, confidence),
                                      compositeSignal, confidence, regime, ind.pattern),
                    confidence |-> confidence,
                    compositeSignal |-> compositeSignal,
                    indicators |-> [k \in DOMAIN snapshot \cup {"macd"} |->
                                       IF k = "macd" THEN ind.macdNow ELSE snapshot[k]],
                    regime |-> regime, weights |-> weights],
             marketRegime |-> regime, indicatorWeights |-> weights,
             signals |-> Signals(ind, weights)]

\* The engine reads the globals tickBuffer, marketRegime, indicatorWeights and
\* the stored history and overwrites marketRegime and indicatorWeights: the
\* result carries the decision d, the two globals as the call leaves them and
\* the signals of the fusion, Null when the call returns before it.
\* variant: a regime already classified is kept instead of being detected anew
advancedDecisionEngineKeepRegime(candles, ticks, hist, regime0, weights0) ==
    IF InsufficientData(candles)
    THEN [d |-> [action |-> "HOLD", reason |-> <<"Insufficient data">>, confidence |-> RatInt(0)],
          marketRegime |-> regime0, indicatorWeights |-> weights0, signals |-> Null]
    ELSE LET regime == IF regime0.type = "UNKNOWN" THEN detectMarketRegime(candles)
                       ELSE regime0
         IN FuseAndDecide(LatestIndicators(candles, ticks), regime, WinRate(hist),
                          updateIndicatorWeights(weights0, regime, WinRate(hist)))
advancedDecisionEngine(candles, ticks, hist, regime0, weights0) ==
    IF InsufficientData(candles)
    THEN [d |-> [action |-> "HOLD", reason |-> <<"Insufficient data">>, confidence |-> RatInt(0)],
          marketRegime |-> regime0, indicatorWeights |-> weights0, signals |-> Null]
    ELSE LET regime == detectMarketRegime(candles)
         IN FuseAndDecide(LatestIndicators(candles, ticks), regime, WinRate(hist),
                          updateIndicatorWeights(weights0, regime, WinRate(hist)))

(* ------------------------- state at page load ------------------------- *)
InitRegime ==
    [type |-> "UNKNOWN", volatility |-> RatInt(0), trend |-> RatInt(0), confidence |-> RatInt(0)]

\* the session state as main.js constructs it, nothing running; the page's
\* HTML, which sets the disabled attributes of the buttons, is not among the
\* sources
Unconnected ==
    /\ ws = "none"
    /\ authorized = FALSE
    /\ autoTrading = FALSE
    /\ autoTimer = 0
    /\ timers = <<>>
    /\ lastProposalReceived = Null
    /\ pc = "idle"
    /\ clock = 0
    /\ symbol = "R_100"
    /\ subscriptions = {}
    /\ pingTimer = "null"
    /\ pingTimers = 0
    /\ stale = <<>>
PageLoad == Unconnected /\ disabled = {}

\* the globals as main.js constructs them, with no stored history
Globals ==
    /\ candleData = <<>>
    /\ tickBuffer = <<>>
    /\ marketRegime = InitRegime
    /\ indicatorWeights = DefaultWeights
    /\ tradeHistory = <<>>
    /\ granularity = 60
    /\ liveMode = FALSE
    /\ sent = <<>>
    /\ tradesMade = 0
    /\ cycles = 0
    /\ PageLoad
globals == <<candleData, tickBuffer, marketRegime, indicatorWeights, tradeHistory,
             granularity, liveMode, sent, tradesMade, cycles, page>>

RECURSIVE SeqsUpTo(_, _)
SeqsUpTo(S, n) ==
    IF n = 0 THEN {<<>>}
    ELSE LET shorter == SeqsUpTo(S, n - 1)
         IN shorter \cup {Append(s, x) : s \in {t \in shorter : Len(t) = n - 1}, x \in S}

Candle(e, o, h, l, c) == [epoch |-> e, open |-> o, high |-> h, low |-> l, close |-> c]

(* ------------------- the indicator library, in isolation --------------- *)
\* candles around a series of closes: open at the previous close, unit wicks
CandlesOf(values) ==
    [i \in 1..Len(values) |->
        LET o == IF i = 1 THEN values[1] ELSE values[i - 1]
            c == values[i]
        IN Candle(i, o, Max2(o, c) + 1, Min2(o, c) - 1, c)]

InitIndicators ==
    /\ Globals
    /\ arg \in [values : SeqsUpTo(1..MaxPx, MaxLen), period : 1..MaxPeriod]
    /\ ret = [fn |-> "none"]

ApplyIndicators ==
    /\ ret.fn = "none"
    /\ ret' = [fn |-> "indicators",
               ma |-> calcMA(arg.values, arg.period),
               ema |-> calcEMA(ToFixed(arg.values), arg.period),
               rsi |-> calcRSI(arg.values, arg.period),
               bb |-> calcBollinger(arg.values, arg.period, 2),
               macd |-> calcMACD(arg.values, 12, 26, 9),
               atr |-> calcATR(CandlesOf(arg.values), arg.period)]
    /\ UNCHANGED <<globals, arg>>

NextIndicators == ApplyIndicators
SpecIndicators == InitIndicators /\ [][NextIndicators]_vars

(* ------------------- the duration optimizer, in isolation -------------- *)
RegimeTypes ==
    {"STRONG_UPTREND", "STRONG_DOWNTREND", "UPTREND", "DOWNTREND", "HIGH_VOLATILITY",
     "CONSOLIDATION", "NEUTRAL", "INSUFFICIENT_DATA"}
PatternStrengths == {RatInt(0), Rat(7, 10), Rat(8, 10), Rat(85, 100), Rat(9, 10)}
VolatilitySamples == {Rat(v, 1000) : v \in {0, 4, 5, 10, 15, 16, 40}}
ConfidenceSamples == {Rat(c, 100) : c \in {0, 59, 60, 65, 80, 81, 95}}

InitDuration ==
    /\ Globals
    /\ arg \in [base : 1..MaxBase, regimeType : RegimeTypes \cup {"UNKNOWN"},
                strength : PatternStrengths, volatility : VolatilitySamples,
                confidence : ConfidenceSamples]
    /\ ret = [fn |-> "none"]

ApplyDuration ==
    /\ ret.fn = "none"
    /\ ret' = [fn |-> "duration",
               plan |-> optimizeTradeDuration([confidence |-> arg.confidence],
                                              [type |-> arg.regimeType], arg.volatility,
                                              [strength |-> arg.strength], arg.base)]
    /\ UNCHANGED <<globals, arg>>

NextDuration == ApplyDuration
SpecDuration == InitDuration /\ [][NextDuration]_vars

(* ------------------- the pattern recognizer, in isolation -------------- *)
PatBase == 10
PatPrices == (PatBase + 1)..(PatBase + PatMaxPx)
PatWicks == {0, 5}
BodyCandles == {Candle(0, o, Max2(o, c), Min2(o, c), c) : o \in PatPrices, c \in PatPrices}
WickCandles ==
    {Candle(0, o, Max2(o, c) + u, Min2(o, c) - l, c) :
        o \in PatPrices, c \in PatPrices, u \in PatWicks, l \in PatWicks}
PrefixCandle == Candle(0, PatBase + PatMaxPx, PatBase + PatMaxPx + 5, PatBase - 5, PatBase + 1)
PatternTriples == {<<c1, c2, c3>> : c1 \in BodyCandles, c2 \in BodyCandles, c3 \in WickCandles}
PatternInputs ==
    PatternTriples
    \cup {<<PrefixCandle>> \o t : t \in PatternTriples}
    \cup {<<>>}
    \cup {<<c3>> : c3 \in WickCandles}
    \cup {<<PrefixCandle, c3>> : c3 \in WickCandles}

InitPattern ==
    /\ Globals
    /\ arg \in [candles : PatternInputs]
    /\ ret = [fn |-> "none"]

ApplyPattern ==
    /\ ret.fn = "none"
    /\ ret' = [fn |-> "pattern", pattern |-> identifyCandlestickPattern(arg.candles)]
    /\ UNCHANGED <<globals, arg>>

NextPattern == ApplyPattern
SpecPattern == InitPattern /\ [][NextPattern]_vars

(* ------------------------ families of candles ------------------------- *)
\* Series of n candles whose second-to-last close is the price 1: going back
\* from there the closes fall by slope per candle, every other one is raised
\* by amp, and those older than the last 20 are lowered by step; the last
\* close is the previous one plus delta.  Each candle opens at the previous
\* close; only the last one has wicks (up above, lo below its body).
Anchor == PriceScale
SeriesClose(n, slope, amp, step, delta, i) ==
    IF i = n THEN Anchor + delta
    ELSE LET dist == n - 1 - i
         IN Anchor - slope * dist + (IF dist % 2 = 1 THEN amp ELSE 0)
                   - (IF i <= n - 20 THEN step ELSE 0)
Series(n, slope, amp, step, delta, up, lo) ==
    [i \in 1..n |->
        LET c == SeriesClose(n, slope, amp, step, delta, i)
            o == IF i = 1 THEN c ELSE SeriesClose(n, slope, amp, step, delta, i - 1)
        IN Candle(60 * i, o, Max2(o, c) + (IF i = n THEN up ELSE 0),
                  Min2(o, c) - (IF i = n THEN lo ELSE 0), c)]
\* n candles at price 1 whose last 25 are at price 0
ZeroTail(n) ==
    [i \in 1..n |-> IF i <= n - 25 THEN Candle(60 * i, Anchor, Anchor, Anchor, Anchor)
                    ELSE Candle(60 * i, 0, 0, 0, 0)]

(* ------------------- the regime classifier, in isolation ---------------- *)
RegimeInputs ==
    {Series(n, slope, amp, step, delta, 0, 0) :
        n \in {0, 49, 50, 60}, slope \in -3..3, amp \in {0, 2, 4, 6, 8, 12, 22, 30},
        step \in {0, 60}, delta \in {-2, 0, 2}}
    \cup {ZeroTail(50)}

InitRegimeSpec ==
    /\ Globals
    /\ arg \in [candles : RegimeInputs]
    /\ ret = [fn |-> "none"]

ApplyRegime ==
    /\ ret.fn = "none"
    /\ ret' = [fn |-> "regime", regime |-> detectMarketRegime(arg.candles)]
    /\ UNCHANGED <<globals, arg>>

NextRegime == ApplyRegime
SpecRegime == InitRegimeSpec /\ [][NextRegime]_vars

(* -------------------- the decision engine, in isolation ----------------- *)
Tick(e, q) == [epoch |-> e, quote |-> q]
\* 20 ticks rising from below to above the price 1, the same falling, 5 ticks
RisingTicks == [i \in 1..20 |-> Tick(i, Anchor + 2 * (i - 10))]
FallingTicks == [i \in 1..20 |-> Tick(i, Anchor - 2 * (i - 10))]
FewTicks == [i \in 1..5 |-> Tick(i, Anchor + i)]
NoTrades == <<>>

Trade(result) == [mode |-> "SIMULATION", decision |-> "BUY", result |-> result]
\* stored histories, newest first: none, wins, losses, one of each, and 13
\* wins in the 20 most recent of 21 records
Wins == [i \in 1..3 |-> Trade("WIN")]
Losses3 == [i \in 1..3 |-> Trade("LOSS")]
WinLoss == <<Trade("WIN"), Trade("LOSS")>>
Wins13of20 == [i \in 1..21 |-> IF i \in 8..20 THEN Trade("WIN") ELSE Trade("LOSS")]
\* the tick buffer and the stored history a call finds
TickHistoryInputs ==
    {<<<<>>, NoTrades>>, <<FewTicks, NoTrades>>, <<RisingTicks, NoTrades>>,
     <<FallingTicks, NoTrades>>, <<RisingTicks, Wins>>, <<FallingTicks, Losses3>>,
     <<<<>>, WinLoss>>, <<<<>>, Wins13of20>>}

\* 50 candles alternating between 1.000 and 1.013 whose last close, 1.006, is
\* the mean of the last 14 closes
TieCandles == Series(50, 0, 13, 0, 6, 0, 0)
\* too few candles (none, 49), a missing array, and 50 or 60 candles
ShortCandles == {<<>>, NoCandles, Series(49, 0, 0, 0, 0, 0, 0), Series(49, 2, 4, 0, 1, 0, 0)}
EngineCandles ==
    {Series(n, slope, amp, 0, delta, 0, lo) :
        n \in {50, 60}, slope \in {-2, -1, 0, 2}, amp \in {0, 4, 22},
        delta \in {-2, 0, 1, 2}, lo \in {0, 5}}
    \cup ShortCandles \cup {ZeroTail(50), TieCandles}

InitEngine ==
    /\ Globals
    /\ arg \in {[candles |-> c, ticks |-> th[1], history |-> th[2]] :
                    c \in EngineCandles, th \in TickHistoryInputs}
    /\ ret = [fn |-> "none"]

\* one call of advancedDecisionEngine(arg.candles) with the tick buffer and
\* the stored history set to arg.ticks and arg.history
CallEngine ==
    /\ UNCHANGED page
    /\ ret.fn = "none"
    /\ \E r \in {advancedDecisionEngine(arg.candles, arg.ticks, arg.history,
                                        marketRegime, indicatorWeights)} :
          /\ ret' = [fn |-> "engine", d |-> r.d, signals |-> r.signals]
          /\ marketRegime' = r.marketRegime
          /\ indicatorWeights' = r.indicatorWeights
    /\ UNCHANGED <<candleData, tickBuffer, tradeHistory, granularity, liveMode, sent,
                   tradesMade, cycles, arg>>

NextEngine == CallEngine
SpecEngine == InitEngine /\ [][NextEngine]_vars

(* -------------------- the weight update, in isolation ------------------ *)
MaxUpdates == 2
\* win rates on both sides of 0.45 and 0.65 and at them
WinRateSamples ==
    {Rat(0, 1), Rat(44, 100), Rat(45, 100), Rat(1, 2), Rat(65, 100), Rat(66, 100), Rat(1, 1)}

InitWeights ==
    /\ Globals
    /\ arg \in [regime : {[type |-> t] : t \in RegimeTypes \cup {"UNKNOWN"}},
                winRate : WinRateSamples]
    /\ ret = [fn |-> "none", updates |-> 0]

\* updateIndicatorWeights(arg.regime, {winRate: arg.winRate}), called again on
\* the weights the call before left
ApplyWeights ==
    /\ UNCHANGED page
    /\ ret.updates < MaxUpdates
    /\ indicatorWeights' = updateIndicatorWeights(indicatorWeights, arg.regime, arg.winRate)
    /\ ret' = [fn |-> "weights", updates |-> ret.updates + 1]
    /\ UNCHANGED <<candleData, tickBuffer, marketRegime, tradeHistory, granularity, liveMode,
                   sent, tradesMade, cycles, arg>>

NextWeights == ApplyWeights
SpecWeights == InitWeights /\ [][NextWeights]_vars

(* ------------- confidence and decision logic, in isolation ------------- *)
\* composite signals at and around 1.5, 2.5 and 4, of both signs, and beyond 5
CompositeSamples ==
    {Rat(sgn * c, 10) : sgn \in {-1, 1}, c \in {0, 15, 16, 25, 26, 31, 40, 41, 50, 60}}
\* trend strengths and volatility ratios of every class of the classifier
TrendSamples == {Rat(t, 1000) : t \in {-30, -15, 0, 15, 30}}
VolRatioSamples == {Surd(RatInt(0), Rat(v, 1000), RatInt(1)) : v \in {1, 3, 5, 10, 20}}
DecideWinRates == {Rat(w, 100) : w \in {0, 39, 40, 50, 60, 61, 100}}

InitDecide ==
    /\ Globals
    /\ arg \in [compositeSignal : CompositeSamples, trendStrength : TrendSamples,
                volPercentage : VolRatioSamples, strength : PatternStrengths,
                winRate : DecideWinRates]
    /\ ret = [fn |-> "none"]

\* decisions.js:128-169 on the composite signal arg.compositeSignal, the regime
\* classified from arg.trendStrength and arg.volPercentage, a pattern of
\* strength arg.strength and the win rate arg.winRate
ApplyDecide ==
    /\ ret.fn = "none"
    /\ LET regime == ClassifyRegime(arg.trendStrength, arg.volPercentage)
           confidence == CapConfidence(BaseConfidence(arg.compositeSignal, regime,
                                                      [strength |-> arg.strength],
                                                      arg.winRate))
       IN ret' = [fn |-> "decide", regime |-> regime, confidence |-> confidence,
                  branch |-> SelectBranch(arg.compositeSignal, confidence),
                  action |-> SelectAction(arg.compositeSignal, confidence)]
    /\ UNCHANGED <<globals, arg>>

NextDecide == ApplyDecide
SpecDecide == InitDecide /\ [][NextDecide]_vars

(* ------------- two runs of the engine on the same inputs --------------- *)
\* values the process-wide regime may hold before a run: the placeholder and
\* what a cycle on other candles left
PriorRegimes ==
    {InitRegime, detectMarketRegime(Series(50, 2, 0, 0, 2, 0, 0)),
     detectMarketRegime(Series(50, 0, 22, 0, 0, 0, 0))}
RerunCandles ==
    {Series(50, slope, amp, 0, delta, 0, 0) :
        slope \in {-2, 0, 2}, amp \in {0, 4, 22}, delta \in {-2, 2}}
    \cup {Series(49, 2, 4, 0, 1, 0, 0), TieCandles}
RerunTickHistories ==
    {<<<<>>, NoTrades>>, <<RisingTicks, Wins>>, <<FallingTicks, Losses3>>}

InitRerun ==
    /\ PageLoad
    /\ candleData = <<>>
    /\ tickBuffer = <<>>
    /\ marketRegime \in PriorRegimes
    /\ indicatorWeights = DefaultWeights
    /\ tradeHistory = <<>>
    /\ granularity = 60
    /\ liveMode = FALSE
    /\ sent = <<>>
    /\ tradesMade = 0
    /\ cycles = 0
    /\ arg \in {[candles |-> c, ticks |-> th[1], history |-> th[2]] :
                    c \in RerunCandles, th \in RerunTickHistories}
    /\ ret = [fn |-> "none"]

\* what a run leaves: the decision and the two globals
RunResult(r) == [d |-> r.d, regime |-> r.marketRegime, weights |-> r.indicatorWeights]

FirstRun ==
    /\ UNCHANGED page
    /\ ret.fn = "none"
    /\ \E r \in {advancedDecisionEngine(arg.candles, arg.ticks, arg.history,
                                        marketRegime, indicatorWeights)} :
          /\ ret' = [fn |-> "first", first |-> RunResult(r)]
          /\ marketRegime' = r.marketRegime
          /\ indicatorWeights' = r.indicatorWeights
    /\ UNCHANGED <<candleData, tickBuffer, tradeHistory, granularity, liveMode, sent,
                   tradesMade, cycles, arg>>

\* between the runs the weights are put back to their defaults and the
\* process-wide regime holds any value
ResetWeights ==
    /\ UNCHANGED page
    /\ ret.fn = "first"
    /\ indicatorWeights' = DefaultWeights
    /\ marketRegime' \in PriorRegimes \cup {marketRegime}
    /\ ret' = [ret EXCEPT !.fn = "reset"]
    /\ UNCHANGED <<candleData, tickBuffer, tradeHistory, granularity, liveMode, sent,
                   tradesMade, cycles, arg>>

SecondRun ==
    /\ UNCHANGED page
    /\ ret.fn = "reset"
    /\ \E r \in {advancedDecisionEngine(arg.candles, arg.ticks, arg.history,
                                        marketRegime, indicatorWeights)} :
          /\ ret' = [fn |-> "second", first |-> ret.first, second |-> RunResult(r),
                     prior |-> marketRegime]
          /\ marketRegime' = r.marketRegime
          /\ indicatorWeights' = r.indicatorWeights
    /\ UNCHANGED <<candleData, tickBuffer, tradeHistory, granularity, liveMode, sent,
                   tradesMade, cycles, arg>>

NextRerun == FirstRun \/ ResetWeights \/ SecondRun
SpecRerun == InitRerun /\ [][NextRerun]_vars

(* ------------------------------ the program ---------------------------- *)
CANDLES_COUNT == 200
MaxCycles == 2
MaxTicks == 1

\* candle batches the server answers with: 49 candles, and 50 candles in a
\* strong uptrend and in a downtrend
CandleBatches ==
    {Series(49, 2, 4, 0, 1, 0, 0), Series(50, 2, 0, 0, 2, 0, 0),
     Series(50, -1, 0, 0, -2, 0, 0)}
\* ticks of the subscription: just after the end of the 50th candle
TickEpochs == {60 * 51 + 1}
TickQuotes == {Anchor + 2}

\* what localStorage holds at page load: nothing, or the record of a lost
\* simulated trade of an earlier session
StoredHistories ==
    {<<>>, <<[mode |-> "SIMULATION", decision |-> "STRONG BUY", result |-> "LOSS",
              regime |-> "STRONG_UPTREND", duration |-> 90]>>}

Init ==
    /\ PageLoad
    /\ candleData = <<>>
    /\ tickBuffer = <<>>
    /\ marketRegime = InitRegime
    /\ indicatorWeights = DefaultWeights
    /\ tradeHistory \in StoredHistories
    /\ granularity = 60
    /\ liveMode = FALSE
    /\ sent = <<>>
    /\ tradesMade = 0
    /\ cycles = 0
    /\ arg = [fn |-> "none"]
    /\ ret = [fn |-> "none"]

\* ws.onmessage, data.candles
OnCandles ==
    /\ UNCHANGED page
    /\ ws = "open"
    /\ authorized
    /\ \E c \in CandleBatches : candleData' = c
    /\ UNCHANGED <<tickBuffer, marketRegime, indicatorWeights, tradeHistory, granularity,
                   liveMode, sent, tradesMade, cycles, arg, ret>>

\* variant: a full buffer drops the arriving tick instead of the oldest
tickMessageDropNewest(epoch, quote) ==
    LET pushed == Append(tickBuffer, Tick(epoch, quote))
        latestTick == Candle(epoch, quote, quote, quote, quote)
        grown == Append(candleData, latestTick)
    IN /\ tickBuffer' = IF Len(pushed) > 50 THEN SubSeq(pushed, 1, 50) ELSE pushed
       /\ candleData' =
              IF Len(candleData) > 0 /\ epoch > Last(candleData).epoch + granularity
              THEN (IF Len(grown) > CANDLES_COUNT THEN Tail(grown) ELSE grown)
              ELSE candleData
\* variant: every tick appends a candle
tickMessageEveryTick(epoch, quote) ==
    LET pushed == Append(tickBuffer, Tick(epoch, quote))
        latestTick == Candle(epoch, quote, quote, quote, quote)
        grown == Append(candleData, latestTick)
    IN /\ tickBuffer' = IF Len(pushed) > 50 THEN Tail(pushed) ELSE pushed
       /\ candleData' =
              IF Len(candleData) > 0
              THEN (IF Len(grown) > CANDLES_COUNT THEN Tail(grown) ELSE grown)
              ELSE candleData
\* ws.onmessage, data.tick: what it does to the tick buffer and the candles
tickMessage(epoch, quote) ==
    LET pushed == Append(tickBuffer, Tick(epoch, quote))
        latestTick == Candle(epoch, quote, quote, quote, quote)
        grown == Append(candleData, latestTick)
    IN /\ tickBuffer' = IF Len(pushed) > 50 THEN Tail(pushed) ELSE pushed
       /\ candleData' =
              IF Len(candleData) > 0 /\ epoch > Last(candleData).epoch + granularity
              THEN (IF Len(grown) > CANDLES_COUNT THEN Tail(grown) ELSE grown)
              ELSE candleData

OnTick ==
    /\ UNCHANGED page
    /\ ws = "open"
    /\ authorized
    /\ Len(tickBuffer) < MaxTicks
    /\ \E epoch \in TickEpochs, quote \in TickQuotes : tickMessage(epoch, quote)
    /\ UNCHANGED <<marketRegime, indicatorWeights, tradeHistory, granularity, liveMode,
                   sent, tradesMade, cycles, arg, ret>>

\* the record simulateTrade stores; Math.random() decides the result
SimulatedRecord(params, win) ==
    [mode |-> "SIMULATION", decision |-> params.decision,
     result |-> IF win THEN "WIN" ELSE "LOSS", regime |-> params.decisionObj.regime.type,
     duration |-> params.duration]
\* the request requestLiveProposal sends
ProposalRequest(params) ==
    [proposal |-> 1, basis |-> "stake", contract_type |-> params.contract_type,
     duration |-> params.duration, duration_unit |-> params.duration_unit, subscribe |-> 1]
\* ws.send throws on a socket that is not open and the callers catch it: of
\* the messages handed to it, sent holds the trade requests that went out
Send(msg) == IF ws = "open" THEN Append(sent, msg) ELSE sent

\* autoCheck() from the duration optimization on, for a decision d that is
\* not held, with the global regime as the engine left it
trade(d, regime) ==
    LET contract_type == IF d.action \in {"BUY", "STRONG BUY"} THEN "CALL" ELSE "PUT"
        durationOptimization ==
            optimizeTradeDuration(d, regime, d.indicators.volatility, d.indicators.pattern,
                                  granularity)
        params == [contract_type |-> contract_type,
                   duration |-> durationOptimization.duration,
                   duration_unit |-> "s", decision |-> d.action, decisionObj |-> d]
    IN IF liveMode
       THEN /\ sent' = Send(ProposalRequest(params))
            /\ UNCHANGED <<tradeHistory, tradesMade>>
       ELSE /\ \E win \in BOOLEAN :
                  tradeHistory' = <<SimulatedRecord(params, win)>> \o tradeHistory
            /\ tradesMade' = tradesMade + 1
            /\ UNCHANGED sent

\* autoCheck(): the decision, and the simulated trade or the live proposal
\* request that follows it
autoCheck ==
    /\ cycles < MaxCycles
    /\ UNCHANGED <<candleData, tickBuffer, granularity, liveMode, arg, ret>>
    /\ IF Len(candleData) < 50
       THEN UNCHANGED <<marketRegime, indicatorWeights, tradeHistory, sent, tradesMade,
                        cycles>>
       ELSE \E r \in {advancedDecisionEngine(candleData, tickBuffer, tradeHistory,
                                             marketRegime, indicatorWeights)} :
            /\ marketRegime' = r.marketRegime
            /\ indicatorWeights' = r.indicatorWeights
            /\ cycles' = cycles + 1
            /\ IF r.d.action = "HOLD" \/ NumLess(r.d.confidence, Rat(65, 100))
               THEN UNCHANGED <<tradeHistory, sent, tradesMade>>
               ELSE trade(r.d, r.marketRegime)

\* an interval made by setInterval(autoCheck, ..) fires
AutoCheck ==
    /\ UNCHANGED page
    /\ \E id \in DOMAIN timers : timers[id]
    /\ autoCheck

\* liveModeCheckbox change
ToggleLive ==
    /\ UNCHANGED page
    /\ liveMode' = ~liveMode
    /\ UNCHANGED <<candleData, tickBuffer, marketRegime, indicatorWeights, tradeHistory,
                   granularity, sent, tradesMade, cycles, arg, ret>>

\* the clear-history button
clearHistory ==
    /\ UNCHANGED page
    /\ tradeHistory # <<>>
    /\ tradeHistory' = <<>>
    /\ UNCHANGED <<candleData, tickBuffer, marketRegime, indicatorWeights, granularity,
                   liveMode, sent, tradesMade, cycles, arg, ret>>

(* ------------------- connection and auto-trading loop ------------------ *)
MaxTimers == 2

\* connectAndAuthorize(), from the connect button or from the reconnect
\* timeout of ws.onclose, with a token in the input and no socket connecting
\* or open
connectAndAuthorize ==
    /\ ws \in {"none", "closed"}
    /\ ws' = "connecting"
    /\ UNCHANGED <<candleData, tickBuffer, marketRegime, indicatorWeights, tradeHistory,
                   granularity, liveMode, sent, tradesMade, cycles, arg, ret, authorized,
                   autoTrading, autoTimer, timers, disabled, lastProposalReceived, pc, clock, feed,
                   keepAlive>>

\* ws.onopen of the socket ws refers to: the authorize request goes out and
\* pingTimer is set to a new keep-alive interval
OnOpen ==
    /\ ws = "connecting"
    /\ ws' = "open"
    /\ pingTimer' = "live"
    /\ pingTimers' = pingTimers + 1
    /\ UNCHANGED <<candleData, tickBuffer, marketRegime, indicatorWeights, tradeHistory,
                   granularity, liveMode, sent, tradesMade, cycles, arg, ret, authorized,
                   autoTrading, autoTimer, timers, disabled, lastProposalReceived, pc, clock,
                   feed, stale>>

\* ws.onmessage, msg_type authorize: the answer to the authorize request;
\* candles are fetched and the ticks of the selected symbol subscribed to
OnAuthorize ==
    /\ ws = "open"
    /\ ~authorized
    /\ authorized' = TRUE
    /\ disabled' = disabled \ {"start"}
    /\ subscriptions' = subscriptions \cup {symbol}
    /\ UNCHANGED <<candleData, tickBuffer, marketRegime, indicatorWeights, tradeHistory,
                   granularity, liveMode, sent, tradesMade, cycles, arg, ret, ws,
                   autoTrading, autoTimer, timers, lastProposalReceived, pc, clock, symbol,
                   keepAlive>>

\* clearInterval(pingTimer)
ClearPingTimer ==
    /\ pingTimer' = IF pingTimer = "live" THEN "cleared" ELSE pingTimer
    /\ pingTimers' = IF pingTimer = "live" THEN pingTimers - 1 ELSE pingTimers

\* ws.onclose of the socket ws refers to, the connection and its
\* subscriptions gone; its timeout makes connectAndAuthorize run again
OnClose ==
    /\ ws \in {"connecting", "open"}
    /\ ws' = "closed"
    /\ authorized' = FALSE
    /\ ClearPingTimer
    /\ subscriptions' = {}
    /\ UNCHANGED <<candleData, tickBuffer, marketRegime, indicatorWeights, tradeHistory,
                   granularity, liveMode, sent, tradesMade, cycles, arg, ret,
                   autoTrading, autoTimer, timers, disabled, lastProposalReceived, pc, clock,
                   symbol, stale>>

\* a click on the start button
startAutoTrading ==
    /\ "start" \notin disabled
    /\ IF ws # "open" \/ ~authorized
       THEN UNCHANGED vars
       ELSE /\ Len(timers) < MaxTimers
            /\ autoTrading' = TRUE
            /\ disabled' = (disabled \cup {"start"}) \ {"stop"}
            /\ autoCheck
            /\ timers' = Append(timers, TRUE)
            /\ autoTimer' = Len(timers) + 1
            /\ UNCHANGED <<ws, authorized, lastProposalReceived, pc, clock, feed,
                   keepAlive>>

\* a click on the stop button
stopAutoTrading ==
    /\ "stop" \notin disabled
    /\ autoTrading' = FALSE
    /\ disabled' = (disabled \ {"start"}) \cup {"stop"}
    /\ timers' = IF autoTimer # 0 THEN [timers EXCEPT ![autoTimer] = FALSE] ELSE timers
    /\ UNCHANGED <<candleData, tickBuffer, marketRegime, indicatorWeights, tradeHistory,
                   granularity, liveMode, sent, tradesMade, cycles, arg, ret, ws, authorized,
                   autoTimer, lastProposalReceived, pc, clock, feed,
                   keepAlive>>

\* the program while the socket stays open
Next ==
    \/ connectAndAuthorize \/ OnOpen \/ OnAuthorize \/ startAutoTrading
    \/ OnCandles \/ OnTick \/ AutoCheck \/ ToggleLive \/ clearHistory
Spec == Init /\ [][Next]_vars

(* ------------------------ the tick and candle feed --------------------- *)
MaxBufferTicks == 52
MaxCandleTicks == 4
Granularities == {60, 120}
\* the server's k-th tick: one every 61 seconds, at the price 1
TickEpoch(k) == 60 * CANDLES_COUNT + 61 * k
TickOf(k) == Tick(TickEpoch(k), Anchor)
\* n candles, one a minute, the last one at the epoch last
Batch(n, last) ==
    [i \in 1..n |-> Candle(last - 60 * (n - i), Anchor, Anchor, Anchor, Anchor)]

\* the options of symbolEl (the page's HTML is not among the sources)
Symbols == {"R_100", "R_50"}
\* main.js:36: declared null, and assigned nowhere in the sources
tickSubscriptionId == Null
\* the subscriptions a forget request for tickSubscriptionId cancels
Forgotten == IF tickSubscriptionId = Null THEN {} ELSE {tickSubscriptionId}

\* symbolEl change to another symbol: on an authorized socket the
\* subscription tickSubscriptionId names is cancelled, the tick buffer is
\* reset, and the candles and the ticks of the new symbol are requested
symbolChange ==
    /\ \E s \in Symbols \ {symbol} : symbol' = s
    /\ tickBuffer' = IF ws # "none" /\ authorized THEN <<>> ELSE tickBuffer
    /\ subscriptions' = IF ws = "open" /\ authorized
                        THEN (subscriptions \ Forgotten) \cup {symbol'}
                        ELSE subscriptions
    /\ UNCHANGED <<candleData, marketRegime, indicatorWeights, tradeHistory, granularity,
                   liveMode, sent, tradesMade, cycles, arg, ret, ws, authorized, autoTrading,
                   autoTimer, timers, disabled, lastProposalReceived, pc, clock, keepAlive>>

\* granEl change to another granularity
granularityChange ==
    /\ \E g \in Granularities \ {granularity} : granularity' = g
    /\ tickBuffer' = IF ws # "none" /\ authorized THEN <<>> ELSE tickBuffer
    /\ UNCHANGED <<candleData, marketRegime, indicatorWeights, tradeHistory, liveMode, sent,
                   tradesMade, cycles, arg, ret, page>>

\* the next tick of the subscription arrives, while the server has sent
\* fewer than max
serverTick(max) ==
    /\ ws = "open"
    /\ authorized
    /\ clock < max
    /\ clock' = clock + 1
    /\ tickMessage(TickEpoch(clock + 1), Anchor)
    /\ UNCHANGED <<marketRegime, indicatorWeights, tradeHistory, granularity, liveMode, sent,
                   tradesMade, cycles, arg, ret, ws, authorized, autoTrading, autoTimer,
                   timers, disabled, lastProposalReceived, pc, feed, keepAlive>>
BufferTick == serverTick(MaxBufferTicks)
CandleTick == serverTick(MaxCandleTicks)

\* the answer to fetchCandles: 1, CANDLES_COUNT - 1 or CANDLES_COUNT candles
\* that end at the latest tick or one tick ahead of it
FeedCandles ==
    /\ UNCHANGED page
    /\ ws = "open"
    /\ authorized
    /\ \E n \in {1, CANDLES_COUNT - 1, CANDLES_COUNT}, ahead \in {0, 1} :
          candleData' = Batch(n, TickEpoch(clock + ahead))
    /\ UNCHANGED <<tickBuffer, marketRegime, indicatorWeights, tradeHistory, granularity,
                   liveMode, sent, tradesMade, cycles, arg, ret>>

InitFeed ==
    /\ Globals
    /\ arg = [fn |-> "none"]
    /\ ret = [fn |-> "none"]

NextTicks ==
    \/ connectAndAuthorize \/ OnOpen \/ OnAuthorize
    \/ BufferTick \/ symbolChange \/ granularityChange
SpecTicks == InitFeed /\ [][NextTicks]_vars

NextCandles ==
    \/ connectAndAuthorize \/ OnOpen \/ OnAuthorize
    \/ CandleTick \/ FeedCandles \/ granularityChange
SpecCandles == InitFeed /\ [][NextCandles]_vars

(* --------------------------- a change of symbol ------------------------ *)
MaxSymbolTicks == 3
\* the instruments trade at different prices: 1 and 2
QuoteOf(s) == IF s = "R_100" THEN Anchor ELSE 2 * Anchor

\* a tick of one of the connection's subscriptions arrives
SymbolTick ==
    /\ ws = "open"
    /\ authorized
    /\ clock < MaxSymbolTicks
    /\ clock' = clock + 1
    /\ \E s \in subscriptions : tickMessage(TickEpoch(clock + 1), QuoteOf(s))
    /\ UNCHANGED <<marketRegime, indicatorWeights, tradeHistory, granularity, liveMode, sent,
                   tradesMade, cycles, arg, ret, ws, authorized, autoTrading, autoTimer,
                   timers, disabled, lastProposalReceived, pc, feed, keepAlive>>

\* the answer to fetchCandles for the selected symbol: two candles that end a
\* tick before the latest one
SymbolCandles ==
    /\ UNCHANGED page
    /\ ws = "open"
    /\ authorized
    /\ candleData' = [i \in 1..2 |->
                         Candle(TickEpoch(clock - 1) - 60 * (2 - i), QuoteOf(symbol),
                                QuoteOf(symbol), QuoteOf(symbol), QuoteOf(symbol))]
    /\ UNCHANGED <<tickBuffer, marketRegime, indicatorWeights, tradeHistory, granularity,
                   liveMode, sent, tradesMade, cycles, arg, ret>>

NextSymbols ==
    \/ connectAndAuthorize \/ OnOpen \/ OnAuthorize
    \/ symbolChange \/ SymbolTick \/ SymbolCandles
SpecSymbols == InitFeed /\ [][NextSymbols]_vars

(* ------------------------------ live trading --------------------------- *)
MaxBuys == 2
IsProposalRequest(msg) == "proposal" \in DOMAIN msg
IsBuy(msg) == "buy" \in DOMAIN msg
\* data.proposal of the server's proposal messages, with and without an id
Proposals == {[id |-> "", ask_price |-> 1], [id |-> "p1", ask_price |-> 1]}

\* variant: the purchase does not look at the live-mode checkbox
proposalMessageAnyMode(proposal) ==
    /\ lastProposalReceived' = proposal
    /\ sent' = IF proposal.id # ""
               THEN Send([buy |-> proposal.id, price |-> proposal.ask_price, subscribe |-> 1])
               ELSE sent
\* ws.onmessage, data.proposal
proposalMessage(proposal) ==
    /\ lastProposalReceived' = proposal
    /\ sent' = IF liveMode /\ proposal.id # ""
               THEN Send([buy |-> proposal.id, price |-> proposal.ask_price, subscribe |-> 1])
               ELSE sent

\* a message of a proposal subscription arrives: some proposal request went
\* out before it
OnProposal ==
    /\ ws = "open"
    /\ authorized
    /\ \E i \in DOMAIN sent : IsProposalRequest(sent[i])
    /\ Cardinality({i \in DOMAIN sent : IsBuy(sent[i])}) < MaxBuys
    /\ \E proposal \in Proposals : proposalMessage(proposal)
    /\ UNCHANGED <<candleData, tickBuffer, marketRegime, indicatorWeights, tradeHistory,
                   granularity, liveMode, tradesMade, cycles, arg, ret, ws, authorized,
                   autoTrading, autoTimer, timers, disabled, pc, clock, feed, keepAlive>>

NextLive ==
    \/ connectAndAuthorize \/ OnOpen \/ OnAuthorize \/ startAutoTrading
    \/ OnCandles \/ AutoCheck \/ ToggleLive \/ OnProposal
SpecLive == Init /\ [][NextLive]_vars

(* ------------------------ sockets and keep-alive ----------------------- *)
MaxStale == 2
MaxPingTimers == 3
\* Seq \ {i}
Without(seq, i) == SubSeq(seq, 1, i - 1) \o SubSeq(seq, i + 1, Len(seq))

\* connectAndAuthorize() while ws refers to a socket that is connecting or
\* open (a connect click, or the reconnect timeout of an earlier close): an
\* open socket is told to close, a connecting one is left alone, and ws is
\* set to a new socket; the old one keeps its handlers
connectAndAuthorizeAgain ==
    /\ ws \in {"connecting", "open"}
    /\ Len(stale) < MaxStale
    /\ stale' = Append(stale, IF ws = "open" THEN "closing" ELSE "connecting")
    /\ ws' = "connecting"
    /\ subscriptions' = {}
    /\ UNCHANGED <<candleData, tickBuffer, marketRegime, indicatorWeights, tradeHistory,
                   granularity, liveMode, sent, tradesMade, cycles, arg, ret, authorized,
                   autoTrading, autoTimer, timers, disabled, lastProposalReceived, pc, clock,
                   symbol, pingTimer, pingTimers>>

\* ws.onopen of the socket ws refers to, while fewer than MaxPingTimers
\* intervals are live
CurrentOpen ==
    /\ pingTimers < MaxPingTimers
    /\ OnOpen

\* ws.onopen of a replaced socket: its authorize request goes to the socket ws
\* refers to now, and pingTimer is set to a new keep-alive interval
StaleOpen ==
    /\ pingTimers < MaxPingTimers
    /\ \E i \in DOMAIN stale :
          /\ stale[i] = "connecting"
          /\ stale' = [stale EXCEPT ![i] = "open"]
    /\ pingTimer' = "live"
    /\ pingTimers' = pingTimers + 1
    /\ UNCHANGED <<candleData, tickBuffer, marketRegime, indicatorWeights, tradeHistory,
                   granularity, liveMode, sent, tradesMade, cycles, arg, ret, ws, authorized,
                   autoTrading, autoTimer, timers, disabled, lastProposalReceived, pc, clock,
                   feed>>

\* ws.onclose of a replaced socket
StaleClose ==
    /\ \E i \in DOMAIN stale : stale' = Without(stale, i)
    /\ authorized' = FALSE
    /\ ClearPingTimer
    /\ UNCHANGED <<candleData, tickBuffer, marketRegime, indicatorWeights, tradeHistory,
                   granularity, liveMode, sent, tradesMade, cycles, arg, ret, ws,
                   autoTrading, autoTimer, timers, disabled, lastProposalReceived, pc, clock,
                   feed>>

NextConnection ==
    \/ connectAndAuthorize \/ connectAndAuthorizeAgain
    \/ CurrentOpen \/ OnAuthorize \/ OnClose \/ StaleOpen \/ StaleClose
SpecConnection == InitFeed /\ [][NextConnection]_vars

(* --------------------------- the broker's answers ---------------------- *)
\* the record ws.onmessage stores for data.buy
LiveRecord(buy) ==
    [mode |-> "LIVE", decision |-> IF buy.contract_type = "CALL" THEN "SELL" ELSE "BUY",
     result |-> "PENDING", regime |-> marketRegime.type]
LiveRecords == {i \in DOMAIN tradeHistory : tradeHistory[i].mode = "LIVE"}

\* ws.onmessage, data.buy: the broker confirms a purchase that has not been
\* confirmed yet; the contract is of the type of a proposal that was requested
OnBuy ==
    /\ ws = "open"
    /\ authorized
    /\ Cardinality(LiveRecords) < Cardinality({i \in DOMAIN sent : IsBuy(sent[i])})
    /\ \E i \in {j \in DOMAIN sent : IsProposalRequest(sent[j])} :
          LET buy == [contract_type |-> sent[i].contract_type]
          IN /\ arg' = [fn |-> "buy", buy |-> buy]
             /\ tradeHistory' = <<LiveRecord(buy)>> \o tradeHistory
    /\ UNCHANGED <<candleData, tickBuffer, marketRegime, indicatorWeights, granularity,
                   liveMode, sent, tradesMade, cycles, ret, page>>

NextBroker ==
    \/ connectAndAuthorize \/ OnOpen \/ OnAuthorize \/ startAutoTrading
    \/ OnCandles \/ AutoCheck \/ ToggleLive \/ OnProposal \/ OnBuy
SpecBroker == Init /\ [][NextBroker]_vars

(* ----------------- one decision cycle, statement by statement ------------ *)
\* variant: autoCheck awaits between the regime detection and the weight update
AwaitPointsAfterRegime == {"weights"}
\* the statements before which a running autoCheck is suspended: autoCheck is
\* declared async but neither it nor the engine holds an await
AwaitPoints == {}
\* the event loop takes the next event when no handler runs
Yielded == pc = "idle" \/ pc \in AwaitPoints

\* the loop has been started on an authorized socket before any candles
InitCycle ==
    /\ candleData = <<>>
    /\ tickBuffer = <<>>
    /\ marketRegime = InitRegime
    /\ indicatorWeights = DefaultWeights
    /\ tradeHistory \in StoredHistories
    /\ granularity = 60
    /\ liveMode = FALSE
    /\ sent = <<>>
    /\ tradesMade = 0
    /\ cycles = 0
    /\ arg = [fn |-> "none"]
    /\ ret = [fn |-> "none"]
    /\ ws = "open"
    /\ authorized = TRUE
    /\ autoTrading = TRUE
    /\ autoTimer = 1
    /\ timers = <<TRUE>>
    /\ disabled = {"start"}
    /\ lastProposalReceived = Null
    /\ pc = "idle"
    /\ clock = 0
    /\ symbol = "R_100"
    /\ subscriptions = {"R_100"}
    /\ pingTimer = "live"
    /\ pingTimers = 1
    /\ stale = <<>>

\* an interval fires and autoCheck runs up to the engine's regime detection
CycleBegin ==
    /\ Yielded
    /\ \E id \in DOMAIN timers : timers[id]
    /\ cycles < MaxCycles
    /\ IF Len(candleData) < 50
       THEN UNCHANGED <<arg, ret, pc>>
       ELSE /\ arg' = [fn |-> "autoCheck", candles |-> candleData]
            /\ ret' = [fn |-> "autoCheck"]
            /\ pc' = "regime"
    /\ UNCHANGED <<candleData, tickBuffer, marketRegime, indicatorWeights, tradeHistory,
                   granularity, liveMode, sent, tradesMade, cycles, ws, authorized, autoTrading, autoTimer, timers, disabled,
                   lastProposalReceived, clock, feed, keepAlive>>

\* marketRegime = detectMarketRegime(candles)
CycleRegime ==
    /\ pc = "regime"
    /\ marketRegime' = detectMarketRegime(arg.candles)
    /\ pc' = "weights"
    /\ UNCHANGED <<candleData, tickBuffer, indicatorWeights, tradeHistory, granularity,
                   liveMode, sent, tradesMade, cycles, arg, ret, ws, authorized, autoTrading,
                   autoTimer, timers, disabled, lastProposalReceived, clock, feed, keepAlive>>

\* the win rate of the stored history, and updateIndicatorWeights
CycleWeights ==
    /\ pc = "weights"
    /\ indicatorWeights' = updateIndicatorWeights(indicatorWeights, marketRegime,
                                                  WinRate(tradeHistory))
    /\ ret' = [fn |-> "autoCheck", winRate |-> WinRate(tradeHistory)]
    /\ pc' = "pattern"
    /\ UNCHANGED <<candleData, tickBuffer, marketRegime, tradeHistory, granularity,
                   liveMode, sent, tradesMade, cycles, arg, ws, authorized, autoTrading,
                   autoTimer, timers, disabled, lastProposalReceived, clock, feed, keepAlive>>

\* pattern = identifyCandlestickPattern(candles)
CyclePattern ==
    /\ pc = "pattern"
    /\ ret' = [fn |-> "autoCheck", winRate |-> ret.winRate,
               pattern |-> identifyCandlestickPattern(arg.candles)]
    /\ pc' = "micro"
    /\ UNCHANGED <<candleData, tickBuffer, marketRegime, indicatorWeights, tradeHistory,
                   granularity, liveMode, sent, tradesMade, cycles, arg, ws, authorized, autoTrading, autoTimer, timers, disabled,
                   lastProposalReceived, clock, feed, keepAlive>>

\* microAnalysis = analyzeMicroStructure(tickBuffer, last candle)
CycleMicro ==
    /\ pc = "micro"
    /\ ret' = [fn |-> "autoCheck", winRate |-> ret.winRate, pattern |-> ret.pattern,
               microAnalysis |->
                   analyzeMicroStructure(tickBuffer, arg.candles[Len(arg.candles)])]
    /\ pc' = "fusion"
    /\ UNCHANGED <<candleData, tickBuffer, marketRegime, indicatorWeights, tradeHistory,
                   granularity, liveMode, sent, tradesMade, cycles, arg, ws, authorized, autoTrading, autoTimer, timers, disabled,
                   lastProposalReceived, clock, feed, keepAlive>>

\* the rest of the engine, and autoCheck's return on a held decision
CycleFusion ==
    /\ pc = "fusion"
    /\ LET ind == [LatestIndicators(arg.candles, tickBuffer) EXCEPT
                       !.pattern = ret.pattern, !.microAnalysis = ret.microAnalysis]
           d == FuseAndDecide(ind, marketRegime, ret.winRate, indicatorWeights).d
       IN /\ ret' = [fn |-> "autoCheck", d |-> d]
          /\ IF d.action = "HOLD" \/ NumLess(d.confidence, Rat(65, 100))
             THEN pc' = "idle" /\ cycles' = cycles + 1
             ELSE pc' = "duration" /\ cycles' = cycles
    /\ UNCHANGED <<candleData, tickBuffer, marketRegime, indicatorWeights, tradeHistory,
                   granularity, liveMode, sent, tradesMade, arg, ws, authorized, autoTrading,
                   autoTimer, timers, disabled, lastProposalReceived, clock, feed, keepAlive>>

\* optimizeTradeDuration with the global regime, and the trade
CycleDuration ==
    /\ pc = "duration"
    /\ trade(ret.d, marketRegime)
    /\ pc' = "idle"
    /\ cycles' = cycles + 1
    /\ UNCHANGED <<candleData, tickBuffer, marketRegime, indicatorWeights, granularity,
                   liveMode, arg, ret, ws, authorized, autoTrading, autoTimer, timers,
                   disabled, lastProposalReceived, clock, feed, keepAlive>>

\* the other handlers, when the event loop gets to them
CycleCandles == Yielded /\ OnCandles
CycleTick == Yielded /\ OnTick
CycleClearHistory == Yielded /\ clearHistory

NextCycle ==
    \/ CycleBegin \/ CycleRegime \/ CycleWeights \/ CyclePattern \/ CycleMicro
    \/ CycleFusion \/ CycleDuration
    \/ CycleCandles \/ CycleTick \/ CycleClearHistory
SpecCycle == InitCycle /\ [][NextCycle]_vars

(* -------------- the session: close, reconnect, start, stop -------------- *)
\* the candles the server answers fetchCandles with: 50 in a strong uptrend
SessionCandles ==
    /\ UNCHANGED page
    /\ ws = "open"
    /\ authorized
    /\ candleData' = Series(50, 2, 0, 0, 2, 0, 0)
    /\ UNCHANGED <<tickBuffer, marketRegime, indicatorWeights, tradeHistory, granularity,
                   liveMode, sent, tradesMade, cycles, arg, ret>>

InitSession ==
    /\ Unconnected
    /\ disabled \in SUBSET {"start", "stop"}
    /\ candleData = <<>>
    /\ tickBuffer = <<>>
    /\ marketRegime = InitRegime
    /\ indicatorWeights = DefaultWeights
    /\ tradeHistory = <<>>
    /\ granularity = 60
    /\ liveMode = FALSE
    /\ sent = <<>>
    /\ tradesMade = 0
    /\ cycles = 0
    /\ arg = [fn |-> "none"]
    /\ ret = [fn |-> "none"]

NextSession ==
    \/ connectAndAuthorize \/ OnOpen \/ OnAuthorize \/ OnClose
    \/ startAutoTrading \/ stopAutoTrading \/ AutoCheck \/ SessionCandles
SpecSession == InitSession /\ [][NextSession]_vars

(* ============================== claims ================================ *)

\* C1: for every positive integer base granularity and every combination of
\* regime type, pattern strength, volatility and decision confidence, the
\* duration returned by optimizeTradeDuration lies in [base, 3*base].
C1_DurationWithinBounds ==
    ret.fn = "duration" =>
        /\ arg.base <= ret.plan.duration
        /\ ret.plan.duration <= 3 * arg.base
\* the multiplier 0.7 * 0.8 * 0.85 rounds below the base and the clamp lifts it
C1_Witness ==
    /\ ret.fn = "duration"
    /\ arg.regimeType = "HIGH_VOLATILITY"
    /\ arg.volatility = Rat(16, 1000)
    /\ arg.confidence = Rat(59, 100)
    /\ arg.strength = RatInt(0)
    /\ arg.base = MaxBase
    /\ ret.plan.duration = arg.base

\* index of the first entry that is not null, -1 when there is none
FirstNonNull(a) ==
    LET S == {i \in 0..(Len(a) - 1) : At(a, i) # Null}
    IN IF S = {} THEN -1 ELSE CHOOSE i \in S : \A j \in S : i <= j

\* C10: the outputs of calcMA, calcEMA, calcRSI, calcBollinger, calcMACD (its
\* three lines) and calcATR have the length of the input; for an input of at
\* least period+1 candles the first non-null ATR value is at index period and
\* the entry at the last input index is the current ATR.
C10_IndexAligned ==
    ret.fn = "indicators" =>
        LET n == Len(arg.values)
        IN /\ Len(ret.ma) = n
           /\ Len(ret.ema) = n
           /\ Len(ret.rsi) = n
           /\ Len(ret.bb) = n
           /\ Len(ret.macd.macdLine) = n
           /\ Len(ret.macd.signalLine) = n
           /\ Len(ret.macd.histogram) = n
           /\ Len(ret.atr) = n
           /\ (n >= arg.period + 1 =>
                  /\ FirstNonNull(ret.atr) = arg.period
                  /\ IsNum(At(ret.atr, n - 1)))

\* the conditions of the seven patterns on the last three candles
Body(c) == Abs(c.close - c.open)
Bullish(c) == c.close > c.open
Bearish(c) == c.close < c.open
DojiCond(c3) == c3.high - c3.low > 0 /\ 10 * Body(c3) < c3.high - c3.low
HammerCond(c3) ==
    /\ Bullish(c3)
    /\ c3.open - c3.low > 2 * Body(c3)
    /\ 10 * (c3.high - c3.close) < 3 * Body(c3)
ShootingStarCond(c3) ==
    /\ Bearish(c3)
    /\ c3.high - c3.open > 2 * Body(c3)
    /\ 10 * (c3.close - c3.low) < 3 * Body(c3)
BullishEngulfingCond(c2, c3) ==
    /\ Bearish(c2) /\ Bullish(c3)
    /\ c3.open < c2.close /\ c3.close > c2.open
    /\ 10 * Body(c3) > 12 * Body(c2)
BearishEngulfingCond(c2, c3) ==
    /\ Bullish(c2) /\ Bearish(c3)
    /\ c3.open > c2.close /\ c3.close < c2.open
    /\ 10 * Body(c3) > 12 * Body(c2)
SoldiersCond(c1, c2, c3) ==
    /\ Bullish(c1) /\ Bullish(c2) /\ Bullish(c3)
    /\ c1.close < c2.close /\ c2.close < c3.close
CrowsCond(c1, c2, c3) ==
    /\ Bearish(c1) /\ Bearish(c2) /\ Bearish(c3)
    /\ c1.close > c2.close /\ c2.close > c3.close
NoPattern == [pattern |-> "NONE", strength |-> RatInt(0), signal |-> "NEUTRAL"]

\* C9: identifyCandlestickPattern returns {NONE, 0, NEUTRAL} for fewer than 3
\* candles and otherwise the first match, on the last three candles only, in
\* the order Doji, Hammer, Shooting star, Bullish engulfing, Bearish
\* engulfing, Three white soldiers, Three black crows, else NONE; a Doji is
\* reported even when a later pattern matches; strength is in [0, 0.9].
C9_PatternPriority ==
    ret.fn = "pattern" =>
        LET s == arg.candles
            n == Len(s)
            p == ret.pattern
        IN /\ RatGeq(p.strength, RatInt(0)) /\ RatLeq(p.strength, Rat(9, 10))
           /\ n < 3 => p = NoPattern
           /\ n >= 3 =>
                LET c1 == s[n - 2]
                    c2 == s[n - 1]
                    c3 == s[n]
                IN p = IF DojiCond(c3)
                         THEN [pattern |-> "DOJI", strength |-> Rat(7, 10),
                               signal |-> "REVERSAL_PENDING"]
                       ELSE IF HammerCond(c3)
                         THEN [pattern |-> "HAMMER", strength |-> Rat(8, 10), signal |-> "BULLISH"]
                       ELSE IF ShootingStarCond(c3)
                         THEN [pattern |-> "SHOOTING_STAR", strength |-> Rat(8, 10),
                               signal |-> "BEARISH"]
                       ELSE IF BullishEngulfingCond(c2, c3)
                         THEN [pattern |-> "BULLISH_ENGULFING", strength |-> Rat(85, 100),
                               signal |-> "BULLISH"]
                       ELSE IF BearishEngulfingCond(c2, c3)
                         THEN [pattern |-> "BEARISH_ENGULFING", strength |-> Rat(85, 100),
                               signal |-> "BEARISH"]
                       ELSE IF SoldiersCond(c1, c2, c3)
                         THEN [pattern |-> "THREE_WHITE_SOLDIERS", strength |-> Rat(9, 10),
                               signal |-> "STRONG_BULLISH"]
                       ELSE IF CrowsCond(c1, c2, c3)
                         THEN [pattern |-> "THREE_BLACK_CROWS", strength |-> Rat(9, 10),
                               signal |-> "STRONG_BEARISH"]
                       ELSE NoPattern
\* four candles whose last one is a Doji with a bullish body while the last
\* three also are three white soldiers: DOJI is reported
C9_Witness ==
    /\ ret.fn = "pattern"
    /\ Len(arg.candles) = 4
    /\ DojiCond(arg.candles[4])
    /\ SoldiersCond(arg.candles[2], arg.candles[3], arg.candles[4])
    /\ ret.pattern.pattern = "DOJI"

\* C7: detectMarketRegime returns INSUFFICIENT_DATA with confidence 0 for
\* fewer than 50 candles and otherwise classifies, in priority order:
\* |trend| > 0.02 and volatility ratio >= 0.003: STRONG_UPTREND or
\* STRONG_DOWNTREND by the sign of the trend, 0.85; |trend| > 0.01: UPTREND
\* or DOWNTREND, 0.70; ratio > 0.01: HIGH_VOLATILITY, 0.60; ratio < 0.003:
\* CONSOLIDATION, 0.65; else NEUTRAL, 0.50.
C7_RegimeClassification ==
    ret.fn = "regime" =>
        LET r == ret.regime
            t == r.trend
            v == r.volatility
        IN IF Len(arg.candles) < 50
           THEN r.type = "INSUFFICIENT_DATA" /\ r.confidence = RatInt(0)
           ELSE IF RatGreater(RatAbs(t), Rat(2, 100)) /\ ~SurdIsNaN(v) /\ ~RootLess(v, Rat(3, 1000))
           THEN /\ r.type = (IF RatGreater(t, RatInt(0)) THEN "STRONG_UPTREND" ELSE "STRONG_DOWNTREND")
                /\ r.confidence = Rat(85, 100)
           ELSE IF RatGreater(RatAbs(t), Rat(1, 100))
           THEN /\ r.type = (IF RatGreater(t, RatInt(0)) THEN "UPTREND" ELSE "DOWNTREND")
                /\ r.confidence = Rat(70, 100)
           ELSE IF RootGreater(v, Rat(1, 100))
           THEN r.type = "HIGH_VOLATILITY" /\ r.confidence = Rat(60, 100)
           ELSE IF RootLess(v, Rat(3, 1000))
           THEN r.type = "CONSOLIDATION" /\ r.confidence = Rat(65, 100)
           ELSE r.type = "NEUTRAL" /\ r.confidence = Rat(50, 100)
\* a trend above 2% over a flat tail (ratio below 0.003) is left to the
\* second rule and classified UPTREND
C7_Witness ==
    /\ ret.fn = "regime"
    /\ Len(arg.candles) >= 50
    /\ RatGreater(ret.regime.trend, Rat(2, 100))
    /\ RootLess(ret.regime.volatility, Rat(3, 1000))
    /\ ret.regime.type = "UPTREND"
    /\ ret.regime.confidence = Rat(7, 10)

(* the engine's gates, read off the candles of the call *)
EnoughCandles == arg.candles # NoCandles /\ Len(arg.candles) >= 50
IndicatorsReady ==
    /\ Last(calcMA(Closes(arg.candles), 14)) # Null
    /\ SurdTruthy(Last(calcBollinger(Closes(arg.candles), 20, 2)).upper)
RawStdevBelowGate == RootLess(Volatility(Closes(arg.candles), 20), Rat(2, 1000))
NoGateApplies == EnoughCandles /\ IndicatorsReady /\ ~RawStdevBelowGate
InsufficientDataDecision ==
    [action |-> "HOLD", reason |-> <<"Insufficient data">>, confidence |-> RatInt(0)]

\* C3: called with a missing candle sequence or with fewer than 50 candles the
\* engine returns HOLD, 'Insufficient data', confidence 0 and nothing else,
\* and the regime and the weights are as they were before the call: no
\* regime, weight or indicator computation has taken place.
C3_InsufficientDataFirst ==
    (ret.fn = "engine" /\ ~EnoughCandles) =>
        /\ ret.d = InsufficientDataDecision
        /\ marketRegime = InitRegime
        /\ indicatorWeights = DefaultWeights
\* 49 candles, 20 ticks and a winning history that would scale the weights
C3_Witness ==
    /\ ret.fn = "engine"
    /\ arg.candles # NoCandles
    /\ Len(arg.candles) = 49
    /\ arg.ticks = RisingTicks
    /\ arg.history = Wins
    /\ ret.d = InsufficientDataDecision
    /\ indicatorWeights = DefaultWeights

\* C4: with at least 50 candles and ready indicators, a raw standard deviation
\* of the last 20 closes below 0.002 gives HOLD, 'Extremely low volatility -
\* no edge', confidence 0, whatever the pattern, and the decision carries the
\* indicator snapshot (moving averages, RSI, bands, volatility, ATR, pattern,
\* micro-structure).
C4_LowVolatilityGate ==
    (ret.fn = "engine" /\ EnoughCandles /\ IndicatorsReady /\ RawStdevBelowGate) =>
        /\ ret.d.action = "HOLD"
        /\ ret.d.reason = <<"Extremely low volatility - no edge">>
        /\ ret.d.confidence = RatInt(0)
        /\ "indicators" \in DOMAIN ret.d
        /\ LET closes == Closes(arg.candles)
               ind == ret.d.indicators
           IN /\ ind.ma14Now = Last(calcMA(closes, 14))
              /\ ind.ma50Now = Last(calcMA(closes, 50))
              /\ ind.bbNow = Last(calcBollinger(closes, 20, 2))
              /\ ind.volatility = Volatility(closes, 20)
              /\ ind.atr = At(calcATR(arg.candles, 14), Len(arg.candles) - 1)
              /\ ind.pattern = identifyCandlestickPattern(arg.candles)
              /\ ind.microAnalysis = analyzeMicroStructure(arg.ticks, Last(arg.candles))
              /\ IsNum(ind.rsiNow)
\* 60 candles, all closes equal but the last, whose candle is a hammer
C4_Witness ==
    /\ ret.fn = "engine"
    /\ Len(arg.candles) = 60
    /\ \A i \in 1..59 : arg.candles[i].close = Anchor
    /\ RawStdevBelowGate
    /\ ret.d.indicators.pattern.pattern = "HAMMER"
    /\ ret.d.action = "HOLD"
    /\ ret.d.reason = <<"Extremely low volatility - no edge">>

\* C5: when no gate applies the action is the first match of: composite > 2.5
\* and confidence > 0.65: BUY, STRONG BUY above 4; composite < -2.5 and
\* confidence > 0.65: SELL, STRONG SELL below -4; |composite| > 1.5 and
\* confidence > 0.7: BUY or SELL by the sign; otherwise HOLD.  A STRONG action
\* has |composite| > 4 and a BUY-type action a positive composite.
C5_ActionSelection ==
    (ret.fn = "engine" /\ NoGateApplies) =>
        LET c == ret.d.compositeSignal
            conf == ret.d.confidence
            a == ret.d.action
        IN /\ IF RatGreater(c, Rat(25, 10)) /\ NumGreater(conf, Rat(65, 100))
              THEN a = (IF RatGreater(c, RatInt(4)) THEN "STRONG BUY" ELSE "BUY")
              ELSE IF RatLess(c, Rat(-25, 10)) /\ NumGreater(conf, Rat(65, 100))
              THEN a = (IF RatLess(c, RatInt(-4)) THEN "STRONG SELL" ELSE "SELL")
              ELSE IF RatGreater(RatAbs(c), Rat(15, 10)) /\ NumGreater(conf, Rat(7, 10))
              THEN a = (IF RatGreater(c, RatInt(0)) THEN "BUY" ELSE "SELL")
              ELSE a = "HOLD"
           /\ a \in {"STRONG BUY", "STRONG SELL"} => RatGreater(RatAbs(c), RatInt(4))
           /\ a \in {"BUY", "STRONG BUY"} => RatGreater(c, RatInt(0))
\* a plain BUY: composite in (2.5, 4] with confidence above 0.65
C5_Witness ==
    /\ ret.fn = "engine"
    /\ NoGateApplies
    /\ ret.d.action = "BUY"
    /\ RatGreater(ret.d.compositeSignal, Rat(25, 10))
    /\ RatLeq(ret.d.compositeSignal, RatInt(4))
    /\ NumGreater(ret.d.confidence, Rat(65, 100))

TableWeights(regimeType) ==
    IF regimeType \in {"STRONG_UPTREND", "STRONG_DOWNTREND"}
    THEN [ma |-> Rat(13, 10), rsi |-> Rat(8, 10), bb |-> Rat(9, 10), momentum |-> Rat(14, 10),
          volume |-> RatInt(1)]
    ELSE IF regimeType = "HIGH_VOLATILITY"
    THEN [ma |-> Rat(7, 10), rsi |-> Rat(12, 10), bb |-> Rat(15, 10), momentum |-> Rat(11, 10),
          volume |-> RatInt(1)]
    ELSE IF regimeType = "CONSOLIDATION"
    THEN [ma |-> Rat(6, 10), rsi |-> Rat(14, 10), bb |-> Rat(13, 10), momentum |-> Rat(5, 10),
          volume |-> RatInt(1)]
    ELSE [ma |-> RatInt(1), rsi |-> RatInt(1), bb |-> RatInt(1), momentum |-> RatInt(1),
          volume |-> RatInt(1)]
WinRateFactor(winRate) ==
    IF RatGreater(winRate, Rat(65, 100)) THEN Rat(11, 10)
    ELSE IF RatLess(winRate, Rat(45, 100)) THEN Rat(85, 100)
    ELSE RatInt(1)

\* C2: at the end of every decision cycle each of the five weights is the
\* table value of the cycle's regime type (1.0 for volume and outside the
\* table) times the factor of the cycle's win rate, whatever the weights
\* were before the cycle.
C2_WeightsDeterminedByCycle ==
    [][cycles' = cycles + 1 =>
           \A k \in DOMAIN indicatorWeights' :
               indicatorWeights'[k] = RatMul(TableWeights(marketRegime'.type)[k],
                                             WinRateFactor(WinRate(tradeHistory)))]_vars

ListedRegimeTypes ==
    {"STRONG_UPTREND", "STRONG_DOWNTREND", "UPTREND", "DOWNTREND", "HIGH_VOLATILITY",
     "CONSOLIDATION", "NEUTRAL", "INSUFFICIENT_DATA"}
RegimeConfidenceInRange ==
    /\ IsNum(marketRegime.confidence)
    /\ RatGeq(marketRegime.confidence, RatInt(0))
    /\ RatLeq(marketRegime.confidence, RatInt(1))
\* C8, as claimed: in every reachable state, the initial one included, the
\* type of the process-wide regime is one of the eight listed types and its
\* confidence is in [0, 1].
C8_RegimeTypeListed == marketRegime.type \in ListedRegimeTypes /\ RegimeConfidenceInRange
\* C8, amended: in every reachable state the confidence of the process-wide
\* regime is in [0, 1] and its type is one of the eight listed types, except
\* that until the first decision cycle has computed a regime it is the
\* placeholder UNKNOWN, with confidence 0.
C8_RegimeTypeListedOrUnknown ==
    /\ RegimeConfidenceInRange
    /\ IF cycles = 0 THEN marketRegime = InitRegime
       ELSE marketRegime.type \in ListedRegimeTypes
\* a cycle has replaced the placeholder by a classified regime
C8_Witness ==
    /\ cycles > 0
    /\ marketRegime.type = "DOWNTREND"
    /\ marketRegime.confidence = Rat(7, 10)

(* the fusion of a call that reached it *)
ReachedFusion == ret.fn = "engine" /\ ret.signals # Null
LatestRsi == Last(calcRSI(Closes(arg.candles), 14))
\* -1, 0 or +1
Sign(x) == IF RatGreater(x, RatInt(0)) THEN RatInt(1)
           ELSE IF RatLess(x, RatInt(0)) THEN RatInt(-1) ELSE RatInt(0)

\* C11: in a call that reaches the fusion the RSI term is +weights.rsi when
\* RSI(14) at the latest index is below 30, -weights.rsi when it is above 70
\* and 0 otherwise, for every RSI value in [0, 100], 0 and 100 included.
C11_RsiContribution ==
    ReachedFusion =>
        ret.signals.rsiSignal =
            IF RatLess(LatestRsi, RatInt(30)) THEN indicatorWeights.rsi
            ELSE IF RatGreater(LatestRsi, RatInt(70)) THEN RatNeg(indicatorWeights.rsi)
            ELSE RatInt(0)

\* C12: in a call that reaches the fusion the trend term is sign(price - MA14)
\* times weights.ma and the MACD term is sign(histogram) times 0.8, both 0
\* when their argument is 0.
C12_SignTerms ==
    ReachedFusion =>
        LET closes == Closes(arg.candles)
            price == RatInt(Last(closes))
            ma14 == Last(calcMA(closes, 14))
            histogram == RatInt(Last(calcMACD(closes, 12, 26, 9).histogram))
        IN /\ ret.signals.trendSignal = RatMul(Sign(RatSub(price, ma14)), indicatorWeights.ma)
           /\ ret.signals.macdSignal = RatMul(Sign(histogram), Rat(8, 10))

\* C13: two runs of the engine on the same candles, tick buffer and history,
\* each started from the default weights, return the same decision (action,
\* composite signal, confidence, regime, weights, and every other field), and
\* the regime a run with at least 50 candles leaves is the same whatever the
\* process-wide regime was before it.
C13_Deterministic ==
    ret.fn = "second" =>
        /\ ret.first.d = ret.second.d
        /\ ret.first.weights = ret.second.weights
        /\ Len(arg.candles) >= 50 => ret.first.regime = ret.second.regime
\* a second run that started from another regime than the first one left and
\* traded like the first
C13_Witness ==
    /\ ret.fn = "second"
    /\ Len(arg.candles) >= 50
    /\ ret.prior # ret.first.regime
    /\ ret.prior.type # "UNKNOWN"
    /\ ret.second.d.action \in {"STRONG BUY", "BUY", "SELL", "STRONG SELL"}
    /\ ret.second.d.regime = ret.first.d.regime
    /\ ret.second.weights # DefaultWeights

\* C14: after updateIndicatorWeights the weights ma, momentum, rsi and bb are
\* the table value of the regime type (1.0 outside the table) times 1.1 for a
\* win rate above 0.65, 0.85 for one below 0.45 and 1 otherwise, whatever
\* they were before: the table is applied first, the scaling second.
C14_TableThenScale ==
    ret.fn = "weights" =>
        \A k \in {"ma", "momentum", "rsi", "bb"} :
            indicatorWeights[k] = RatMul(TableWeights(arg.regime.type)[k],
                                         WinRateFactor(arg.winRate))
\* a second update in a high-volatility regime with a win rate of 0.44: bb is
\* 1.5 * 0.85 while the volume weight has been scaled twice
C14_Witness ==
    /\ ret.fn = "weights"
    /\ ret.updates = 2
    /\ arg.regime.type = "HIGH_VOLATILITY"
    /\ arg.winRate = Rat(44, 100)
    /\ indicatorWeights.bb = Rat(1275, 1000)
    /\ indicatorWeights.ma = Rat(595, 1000)
    /\ indicatorWeights.volume = Rat(7225, 10000)

LiveTimers == {id \in DOMAIN timers : timers[id]}
\* C20: after any sequence of connect, authorize, close, reconnect, start and
\* stop events at most one interval running autoCheck is live, and a decision
\* cycle runs only while auto trading is on, that is between a start and the
\* next stop.
C20_OneTimerStoppedByStop ==
    /\ [](Cardinality(LiveTimers) <= 1)
    /\ [][cycles' # cycles => autoTrading']_vars

\* C19: an action other than HOLD comes with |composite| > 2.5 and a regime
\* that is not NEUTRAL, and the moderate branch (|composite| > 1.5 with
\* confidence > 0.7) is never the one taken.
C19_ModerateUnreachable ==
    ret.fn = "decide" =>
        /\ ret.branch # "moderate"
        /\ ret.action # "HOLD" =>
              /\ RatGreater(RatAbs(arg.compositeSignal), Rat(25, 10))
              /\ ret.regime.type # "NEUTRAL"
\* a SELL at composite -3.1 in a strong trend with a strong pattern and a
\* winning history: its confidence, 0.62 * 0.85 * 1.15 * 1.1, is above 0.65
C19_Witness ==
    /\ ret.fn = "decide"
    /\ arg.compositeSignal = Rat(-31, 10)
    /\ ret.regime.confidence = Rat(85, 100)
    /\ RatGreater(arg.strength, Rat(7, 10))
    /\ arg.winRate = RatInt(1)
    /\ ret.branch = "bearish"
    /\ ret.action = "SELL"

Increasing(s) == \A i \in 1..(Len(s) - 1) : s[i].epoch < s[i + 1].epoch

\* C15: after any sequence of ticks and symbol or granularity changes the tick
\* buffer holds at most 50 ticks in arrival order; an arriving tick is appended
\* and, at a full buffer, the oldest tick is the one evicted; nothing else
\* changes the buffer but a reset to empty.
C15_TickBufferBounded ==
    /\ [](Len(tickBuffer) <= 50 /\ Increasing(tickBuffer))
    /\ [][IF clock' # clock
          THEN tickBuffer' = Append(IF Len(tickBuffer) = 50 THEN Tail(tickBuffer)
                                    ELSE tickBuffer, TickOf(clock'))
          ELSE tickBuffer' \in {tickBuffer, <<>>}]_vars
\* the 52nd tick has arrived: the buffer holds the ticks 3 to 52
C15_Witness ==
    /\ clock = 52
    /\ tickBuffer = [i \in 1..50 |-> TickOf(i + 2)]

\* C16: after any sequence of candle batches and ticks the candle sequence has
\* at most 200 candles with strictly increasing epochs; a tick appends a
\* candle exactly when its epoch is greater than the last candle's epoch plus
\* the granularity, and an append to 200 candles evicts the oldest.
C16_CandlesBounded ==
    /\ [](Len(candleData) <= 200 /\ Increasing(candleData))
    /\ [][clock' # clock =>
             LET e == TickEpoch(clock')
                 latestTick == Candle(e, Anchor, Anchor, Anchor, Anchor)
             IN candleData' =
                    IF Len(candleData) > 0 /\ e > Last(candleData).epoch + granularity
                    THEN Append(IF Len(candleData) = 200 THEN Tail(candleData)
                                ELSE candleData, latestTick)
                    ELSE candleData]_vars
\* a tick has been appended to a batch of 200 candles: the batch's first
\* candle is gone and its second one is now the oldest
C16_Witness ==
    /\ Len(candleData) = 200
    /\ clock > 0
    /\ Last(candleData).epoch = TickEpoch(clock)
    /\ candleData[199].epoch = TickEpoch(clock - 1)
    /\ candleData[1].epoch = TickEpoch(clock - 1) - 60 * 198

\* the decision autoCheck takes in the current state
CurrentDecision ==
    advancedDecisionEngine(candleData, tickBuffer, tradeHistory, marketRegime,
                           indicatorWeights).d

\* C18: a trade request goes out only with the live-mode checkbox checked; a
\* buy goes out only in the handling of a proposal message that carries an id,
\* for that id; a proposal request goes out only in a decision cycle whose
\* decision is not HOLD and has a confidence of at least 0.65; a trade is
\* counted as made only with live mode unchecked, recorded as a simulation,
\* with nothing sent.
C18_RealMoneySafety ==
    [][/\ sent' # sent =>
            /\ liveMode
            /\ sent' = Append(sent, Last(sent'))
            /\ IsBuy(Last(sent')) =>
                   /\ cycles' = cycles
                   /\ lastProposalReceived' # Null
                   /\ lastProposalReceived'.id # ""
                   /\ Last(sent').buy = lastProposalReceived'.id
            /\ IsProposalRequest(Last(sent')) =>
                   /\ cycles' = cycles + 1
                   /\ Len(candleData) >= 50
                   /\ CurrentDecision.action # "HOLD"
                   /\ ~NumLess(CurrentDecision.confidence, Rat(65, 100))
       /\ tradesMade' # tradesMade =>
            /\ ~liveMode
            /\ sent' = sent
            /\ Len(tradeHistory') = Len(tradeHistory) + 1
            /\ tradeHistory'[1].mode = "SIMULATION"]_vars
\* a trade was simulated, and a proposal was requested and bought in live mode
C18_Witness ==
    /\ tradesMade > 0
    /\ \E i, j \in DOMAIN sent : i < j /\ IsProposalRequest(sent[i]) /\ IsBuy(sent[j])

\* the order of the statements of a cycle
CycleOrder ==
    {<<"idle", "regime">>, <<"regime", "weights">>, <<"weights", "pattern">>,
     <<"pattern", "micro">>, <<"micro", "fusion">>, <<"fusion", "duration">>,
     <<"fusion", "idle">>, <<"duration", "idle">>}
\* the weights the fusion reads, as the weight update makes them for a regime
\* and a history (the table leaves volume, which the fusion does not read)
FusionWeights(w) == [k \in {"ma", "rsi", "bb", "momentum"} |-> w[k]]
SameCycleWeights ==
    FusionWeights(indicatorWeights) =
        FusionWeights(updateIndicatorWeights(DefaultWeights, detectMarketRegime(candleData),
                                             WinRate(tradeHistory)))

\* C17: a cycle's statements run in the order regime, weights, pattern,
\* micro-structure, fusion, duration; a cycle begins only when none is
\* running; while one runs every step is its next statement and candles,
\* ticks, history and timers stay as they are (but for the trade the last
\* statement records); the weights read by the fusion and the regime read by
\* the fusion and by the duration optimizer are those made in this cycle from
\* the candle sequence the cycle runs on.
C17_CyclesSerialized ==
    [][/\ pc' # pc => <<pc, pc'>> \in CycleOrder
       /\ pc # "idle" =>
            /\ pc' # pc
            /\ candleData' = candleData /\ candleData = arg.candles
            /\ tickBuffer' = tickBuffer
            /\ timers' = timers
            /\ pc # "duration" => tradeHistory' = tradeHistory
       /\ pc = "fusion" =>
            /\ marketRegime = detectMarketRegime(candleData)
            /\ SameCycleWeights
            /\ pc' = "duration" =>
                   /\ ret'.d.weights = indicatorWeights
                   /\ ret'.d.regime = marketRegime
       /\ pc = "duration" =>
            /\ marketRegime = detectMarketRegime(candleData)
            /\ ret.d.regime = marketRegime
            /\ tradesMade' # tradesMade =>
                   tradeHistory'[1].duration =
                       optimizeTradeDuration(ret.d, detectMarketRegime(candleData),
                                             ret.d.indicators.volatility,
                                             ret.d.indicators.pattern, granularity).duration]_vars
\* a second cycle is at its last statement, after ticks arrived
C17_Witness ==
    /\ pc = "duration"
    /\ cycles = 1
    /\ tickBuffer # <<>>

\* C21: once the symbol has been changed on an authorized socket, every tick
\* appended to the tick buffer, and every candle made from a tick, is a tick
\* of the selected symbol, and the tick buffer never holds ticks of two
\* instruments.
C21_SingleInstrument ==
    /\ [](\A i, j \in DOMAIN tickBuffer : tickBuffer[i].quote = tickBuffer[j].quote)
    /\ [][clock' # clock =>
             /\ Last(tickBuffer').quote = QuoteOf(symbol)
             /\ candleData' # candleData => Last(candleData').close = QuoteOf(symbol)]_vars

\* C22: a proposal request asks for CALL exactly when the cycle's decision is
\* BUY or STRONG BUY and for PUT exactly when it is SELL or STRONG SELL, and
\* the history record stored for a confirmed live purchase has decision BUY
\* for a CALL contract and SELL for a PUT contract.
C22_DirectionRoundTrip ==
    [][/\ (Len(sent') = Len(sent) + 1 /\ IsProposalRequest(Last(sent'))) =>
            /\ Len(candleData) >= 50
            /\ Last(sent').contract_type = "CALL"
                   <=> CurrentDecision.action \in {"BUY", "STRONG BUY"}
            /\ Last(sent').contract_type = "PUT"
                   <=> CurrentDecision.action \in {"SELL", "STRONG SELL"}
       /\ (Len(tradeHistory') = Len(tradeHistory) + 1 /\ tradeHistory'[1].mode = "LIVE") =>
            tradeHistory'[1].decision =
                IF arg'.buy.contract_type = "CALL" THEN "BUY" ELSE "SELL"]_vars

\* a socket whose connection is established and has not closed yet
Connected ==
    \/ ws = "open"
    \/ \E i \in DOMAIN stale : stale[i] \in {"open", "closing"}

\* C23: after any interleaving of connect calls, opens and closes at most one
\* keep-alive interval is live, and none is live while no socket has an
\* established connection.
C23_OnePingTimer ==
    [](pingTimers <= 1 /\ (~Connected => pingTimers = 0))

=============================================================================
